---- MODULE Spec2Model ----
(***************************************************************************)
(* The incremental HTTP parser (HttpParser) and the header container       *)
(* (Headers) of pulsar/utils/httpurl.py.                                   *)
(*                                                                         *)
(* A byte, and a character of the latin-1 decoded text, is a one-character *)
(* string; byte strings and text are sequences of them.  Python's None is  *)
(* the empty tuple and a value v that may be None is the tuple <<v>>.      *)
(***************************************************************************)
EXTENDS Integers, Sequences, FiniteSets, TLC

None == <<>>
Some(v) == <<v>>
Val(o) == o[1]

Min2(a, b) == IF a < b THEN a ELSE b
Max2(a, b) == IF a > b THEN a ELSE b

\* a local variable: the body F with the value v for its name
Let(v, F(_)) == F(v)

\* ------------------------------------------------------------------------
\* Characters
\* ------------------------------------------------------------------------
CR == "\r"
LF == "\n"
SP == " "
HT == "\t"
CRLF == <<CR, LF>>
CRLFCRLF == <<CR, LF, CR, LF>>

UpperLetters == <<"A", "B", "C", "D", "E", "F", "G", "H", "I", "J", "K", "L", "M",
                  "N", "O", "P", "Q", "R", "S", "T", "U", "V", "W", "X", "Y", "Z">>
LowerLetters == <<"a", "b", "c", "d", "e", "f", "g", "h", "i", "j", "k", "l", "m",
                  "n", "o", "p", "q", "r", "s", "t", "u", "v", "w", "x", "y", "z">>
UpperSet == {UpperLetters[i] : i \in DOMAIN UpperLetters}
LowerSet == {LowerLetters[i] : i \in DOMAIN LowerLetters}
Digits == {"0", "1", "2", "3", "4", "5", "6", "7", "8", "9"}
HexLetters == {"a", "b", "c", "d", "e", "f"}
DigitSeq == <<"0", "1", "2", "3", "4", "5", "6", "7", "8", "9",
              "a", "b", "c", "d", "e", "f">>

\* str.isspace() and the default characters of strip(), within the alphabet
Whitespace == {SP, HT, CR, LF}

UpperMap == [c \in LowerSet |-> UpperLetters[CHOOSE i \in DOMAIN LowerLetters : LowerLetters[i] = c]]
LowerMap == [c \in UpperSet |-> LowerLetters[CHOOSE i \in DOMAIN UpperLetters : UpperLetters[i] = c]]
UpperChar(c) == IF c \in LowerSet THEN UpperMap[c] ELSE c
LowerChar(c) == IF c \in UpperSet THEN LowerMap[c] ELSE c

\* str.upper() / str.lower()
Upper(s) == [i \in DOMAIN s |-> UpperChar(s[i])]
Lower(s) == [i \in DOMAIN s |-> LowerChar(s[i])]

DigitVal(c) == (CHOOSE i \in DOMAIN DigitSeq : DigitSeq[i] = LowerChar(c)) - 1

\* ------------------------------------------------------------------------
\* Python sequence operations (0-based indices, as in the source)
\* ------------------------------------------------------------------------
\* a slice bound as Python clamps it
Clamp(i, n) == IF i < 0 THEN Max2(n + i, 0) ELSE Min2(i, n)
\* s[lo:hi]
Slice(s, lo, hi) == SubSeq(s, Clamp(lo, Len(s)) + 1, Clamp(hi, Len(s)))
\* s[lo:]
SliceFrom(s, lo) == SubSeq(s, Clamp(lo, Len(s)) + 1, Len(s))
\* s[:hi]
SliceTo(s, hi) == SubSeq(s, 1, Clamp(hi, Len(s)))

\* s.find(pat): the lowest index where pat occurs, or -1
Find(s, pat) ==
    Let({i \in 0..(Len(s) - Len(pat)) : SubSeq(s, i + 1, i + Len(pat)) = pat}, LAMBDA at :
        IF at = {} THEN -1 ELSE CHOOSE i \in at : \A j \in at : i <= j)

StartsWith(s, pat) == Len(s) >= Len(pat) /\ SubSeq(s, 1, Len(pat)) = pat

\* b''.join(list)
RECURSIVE Join(_)
Join(list) == IF list = <<>> THEN <<>> ELSE Head(list) \o Join(Tail(list))

\* sep.join(list)
RECURSIVE JoinWith(_, _)
JoinWith(sep, list) ==
    IF list = <<>> THEN <<>>
    ELSE IF Len(list) = 1 THEN list[1]
    ELSE list[1] \o sep \o JoinWith(sep, Tail(list))

\* the length of the longest prefix of s made of characters of set
RECURSIVE Span(_, _)
Span(s, set) == IF s # <<>> /\ s[1] \in set THEN 1 + Span(Tail(s), set) ELSE 0

\* the length of the longest prefix of s made of characters outside set
RECURSIVE SpanNot(_, _)
SpanNot(s, set) == IF s # <<>> /\ s[1] \notin set THEN 1 + SpanNot(Tail(s), set) ELSE 0

Reverse(s) == [i \in DOMAIN s |-> s[Len(s) + 1 - i]]

\* s.lstrip(chars) / s.rstrip(chars) / s.strip(chars)
LStrip(s, chars) == SliceFrom(s, Span(s, chars))
RStrip(s, chars) == SliceTo(s, Len(s) - Span(Reverse(s), chars))
Strip(s, chars) == LStrip(RStrip(s, chars), chars)

\* s.split(None, maxsplit): split on runs of whitespace; once maxsplit pieces
\* are cut, what is left (leading whitespace skipped) is the last piece
RECURSIVE SplitWS(_, _)
SplitWS(s, maxsplit) ==
    Let(LStrip(s, Whitespace), LAMBDA t :
        IF t = <<>> THEN <<>>
        ELSE IF maxsplit = 0 THEN <<t>>
        ELSE Let(SpanNot(t, Whitespace), LAMBDA j :
            <<SliceTo(t, j)>> \o SplitWS(SliceFrom(t, j), maxsplit - 1)))

\* s.split(sep): every piece between occurrences of sep
RECURSIVE Split(_, _)
Split(s, sep) ==
    Let(Find(s, sep), LAMBDA idx :
        IF idx < 0 THEN <<s>>
        ELSE <<SliceTo(s, idx)>> \o Split(SliceFrom(s, idx + Len(sep)), sep))

\* s.split(sep, 1)
SplitOnce(s, sep) ==
    Let(Find(s, sep), LAMBDA idx :
        IF idx < 0 THEN <<s>>
        ELSE <<SliceTo(s, idx), SliceFrom(s, idx + Len(sep))>>)

\* the number a sequence of digits of the given base denotes
RECURSIVE DigitsValue(_, _)
DigitsValue(s, base) ==
    IF s = <<>> THEN 0
    ELSE DigitsValue(SliceTo(s, Len(s) - 1), base) * base + DigitVal(s[Len(s)])

\* int(s, base) for base 10 or 16: None stands for ValueError.  Surrounding
\* whitespace, one sign, for base 16 a 0x prefix, and single underscores
\* between digits are accepted.
BaseDigits(base) == IF base = 16 THEN Digits \cup HexLetters \cup {"A", "B", "C", "D", "E", "F"} ELSE Digits
PyInt(s, base) ==
    Let(Strip(s, Whitespace), LAMBDA t :
    Let(IF t # <<>> /\ t[1] \in {"+", "-"} THEN Tail(t) ELSE t, LAMBDA u :
    Let(base = 16 /\ Len(u) >= 2 /\ u[1] = "0" /\ u[2] \in {"x", "X"}, LAMBDA hasPrefix :
    Let(IF hasPrefix THEN SliceFrom(u, 2) ELSE u, LAMBDA v :
    \* after a prefix one underscore may precede the digits
    Let(IF hasPrefix /\ v # <<>> /\ v[1] = "_" THEN Tail(v) ELSE v, LAMBDA w :
        IF  /\ w # <<>>
            /\ \A i \in DOMAIN w : w[i] \in BaseDigits(base) \cup {"_"}
            /\ w[1] # "_" /\ w[Len(w)] # "_"
            /\ \A i \in 1..(Len(w) - 1) : ~(w[i] = "_" /\ w[i + 1] = "_")
        THEN Let(DigitsValue(SelectSeq(w, LAMBDA c : c # "_"), base), LAMBDA n :
                 Some(IF t[1] = "-" THEN 0 - n ELSE n))
        ELSE None)))))

\* ------------------------------------------------------------------------
\* Header registry
\* ------------------------------------------------------------------------
HEADER_FIELDS_general ==
    { <<"C", "a", "c", "h", "e", "-", "C", "o", "n", "t", "r", "o", "l">>  \* Cache-Control
    , <<"C", "o", "n", "n", "e", "c", "t", "i", "o", "n">>  \* Connection
    , <<"D", "a", "t", "e">>  \* Date
    , <<"P", "r", "a", "g", "m", "a">>  \* Pragma
    , <<"T", "r", "a", "i", "l", "e", "r">>  \* Trailer
    , <<"T", "r", "a", "n", "s", "f", "e", "r", "-", "E", "n", "c", "o", "d", "i", "n", "g">>  \* Transfer-Encoding
    , <<"U", "p", "g", "r", "a", "d", "e">>  \* Upgrade
    , <<"S", "e", "c", "-", "W", "e", "b", "S", "o", "c", "k", "e", "t", "-", "E", "x", "t", "e", "n", "s", "i", "o", "n", "s">>  \* Sec-WebSocket-Extensions
    , <<"S", "e", "c", "-", "W", "e", "b", "S", "o", "c", "k", "e", "t", "-", "P", "r", "o", "t", "o", "c", "o", "l">>  \* Sec-WebSocket-Protocol
    , <<"V", "i", "a">>  \* Via
    , <<"W", "a", "r", "n", "i", "n", "g">>  \* Warning
    }
HEADER_FIELDS_request ==
    { <<"A", "c", "c", "e", "p", "t">>  \* Accept
    , <<"A", "c", "c", "e", "p", "t", "-", "C", "h", "a", "r", "s", "e", "t">>  \* Accept-Charset
    , <<"A", "c", "c", "e", "p", "t", "-", "E", "n", "c", "o", "d", "i", "n", "g">>  \* Accept-Encoding
    , <<"A", "c", "c", "e", "p", "t", "-", "L", "a", "n", "g", "u", "a", "g", "e">>  \* Accept-Language
    , <<"A", "u", "t", "h", "o", "r", "i", "z", "a", "t", "i", "o", "n">>  \* Authorization
    , <<"C", "o", "o", "k", "i", "e">>  \* Cookie
    , <<"E", "x", "p", "e", "c", "t">>  \* Expect
    , <<"F", "r", "o", "m">>  \* From
    , <<"H", "o", "s", "t">>  \* Host
    , <<"I", "f", "-", "M", "a", "t", "c", "h">>  \* If-Match
    , <<"I", "f", "-", "M", "o", "d", "i", "f", "i", "e", "d", "-", "S", "i", "n", "c", "e">>  \* If-Modified-Since
    , <<"I", "f", "-", "N", "o", "n", "e", "-", "M", "a", "t", "c", "h">>  \* If-None-Match
    , <<"I", "f", "-", "R", "a", "n", "g", "e">>  \* If-Range
    , <<"I", "f", "-", "U", "n", "m", "o", "d", "i", "f", "i", "e", "d", "-", "S", "i", "n", "c", "e">>  \* If-Unmodified-Since
    , <<"M", "a", "x", "-", "F", "o", "r", "w", "a", "r", "d", "s">>  \* Max-Forwards
    , <<"P", "r", "o", "x", "y", "-", "A", "u", "t", "h", "o", "r", "i", "z", "a", "t", "i", "o", "n">>  \* Proxy-Authorization
    , <<"R", "a", "n", "g", "e">>  \* Range
    , <<"R", "e", "f", "e", "r", "e", "r">>  \* Referer
    , <<"S", "e", "c", "-", "W", "e", "b", "S", "o", "c", "k", "e", "t", "-", "K", "e", "y">>  \* Sec-WebSocket-Key
    , <<"S", "e", "c", "-", "W", "e", "b", "S", "o", "c", "k", "e", "t", "-", "V", "e", "r", "s", "i", "o", "n">>  \* Sec-WebSocket-Version
    , <<"T", "E">>  \* TE
    , <<"U", "s", "e", "r", "-", "A", "g", "e", "n", "t">>  \* User-Agent
    , <<"X", "-", "R", "e", "q", "u", "e", "s", "t", "e", "d", "-", "W", "i", "t", "h">>  \* X-Requested-With
    }
HEADER_FIELDS_response ==
    { <<"A", "c", "c", "e", "p", "t", "-", "R", "a", "n", "g", "e", "s">>  \* Accept-Ranges
    , <<"A", "g", "e">>  \* Age
    , <<"E", "T", "a", "g">>  \* ETag
    , <<"L", "o", "c", "a", "t", "i", "o", "n">>  \* Location
    , <<"P", "r", "o", "x", "y", "-", "A", "u", "t", "h", "e", "n", "t", "i", "c", "a", "t", "e">>  \* Proxy-Authenticate
    , <<"R", "e", "t", "r", "y", "-", "A", "f", "t", "e", "r">>  \* Retry-After
    , <<"S", "e", "c", "-", "W", "e", "b", "S", "o", "c", "k", "e", "t", "-", "A", "c", "c", "e", "p", "t">>  \* Sec-WebSocket-Accept
    , <<"S", "e", "r", "v", "e", "r">>  \* Server
    , <<"S", "e", "t", "-", "C", "o", "o", "k", "i", "e">>  \* Set-Cookie
    , <<"S", "e", "t", "-", "C", "o", "o", "k", "i", "e", "2">>  \* Set-Cookie2
    , <<"V", "a", "r", "y">>  \* Vary
    , <<"W", "W", "W", "-", "A", "u", "t", "h", "e", "n", "t", "i", "c", "a", "t", "e">>  \* WWW-Authenticate
    , <<"X", "-", "F", "r", "a", "m", "e", "-", "O", "p", "t", "i", "o", "n", "s">>  \* X-Frame-Options
    }
HEADER_FIELDS_entity ==
    { <<"A", "l", "l", "o", "w">>  \* Allow
    , <<"C", "o", "n", "t", "e", "n", "t", "-", "E", "n", "c", "o", "d", "i", "n", "g">>  \* Content-Encoding
    , <<"C", "o", "n", "t", "e", "n", "t", "-", "L", "a", "n", "g", "u", "a", "g", "e">>  \* Content-Language
    , <<"C", "o", "n", "t", "e", "n", "t", "-", "L", "e", "n", "g", "t", "h">>  \* Content-Length
    , <<"C", "o", "n", "t", "e", "n", "t", "-", "L", "o", "c", "a", "t", "i", "o", "n">>  \* Content-Location
    , <<"C", "o", "n", "t", "e", "n", "t", "-", "M", "D", "5">>  \* Content-MD5
    , <<"C", "o", "n", "t", "e", "n", "t", "-", "R", "a", "n", "g", "e">>  \* Content-Range
    , <<"C", "o", "n", "t", "e", "n", "t", "-", "T", "y", "p", "e">>  \* Content-Type
    , <<"E", "x", "p", "i", "r", "e", "s">>  \* Expires
    , <<"L", "a", "s", "t", "-", "M", "o", "d", "i", "f", "i", "e", "d">>  \* Last-Modified
    }

HEADER_FIELDS ==
    [general |-> HEADER_FIELDS_general, request |-> HEADER_FIELDS_request,
     response |-> HEADER_FIELDS_response, entity |-> HEADER_FIELDS_entity]

CLIENT_HEADER_FIELDS ==
    HEADER_FIELDS.general \cup HEADER_FIELDS.entity \cup HEADER_FIELDS.request
SERVER_HEADER_FIELDS ==
    HEADER_FIELDS.general \cup HEADER_FIELDS.entity \cup HEADER_FIELDS.response
ALL_HEADER_FIELDS == CLIENT_HEADER_FIELDS \cup SERVER_HEADER_FIELDS

\* lowercased name -> registry name
ALL_HEADER_FIELDS_DICT ==
    [k \in {Lower(h) : h \in ALL_HEADER_FIELDS} |->
        CHOOSE h \in ALL_HEADER_FIELDS : Lower(h) = k]

TYPE_HEADER_FIELDS ==
    [client |-> CLIENT_HEADER_FIELDS, server |-> SERVER_HEADER_FIELDS,
     both |-> ALL_HEADER_FIELDS]

\* header_type: the kind number of a parser -> the kind of its container
header_type == <<"server", "both">>
HeaderType(kind) == IF kind = 0 THEN "client" ELSE header_type[kind]
header_type_to_int(kind) == CASE kind = "client" -> 0 [] kind = "server" -> 1 [] kind = "both" -> 2

capfirst(x) ==
    Let(Strip(x, Whitespace), LAMBDA y :
        IF y # <<>> THEN <<UpperChar(y[1])>> \o Lower(Tail(y)) ELSE y)

capheader(name) ==
    Let(Split(name, <<"-">>), LAMBDA parts :
        JoinWith(<<"-">>, SelectSeq([i \in DOMAIN parts |-> capfirst(parts[i])],
                                    LAMBDA b : b # <<>>)))

\* A variant of header_field that takes every call as not strict
header_field_lenient(name, HEADERS_SET, strict) ==
    Let(Lower(name), LAMBDA lname :
    Let(IF lname \in DOMAIN ALL_HEADER_FIELDS_DICT
        THEN Some(ALL_HEADER_FIELDS_DICT[lname]) ELSE None, LAMBDA header :
        IF StartsWith(lname, <<"x", "-">>) THEN Some(capheader(lname))
        ELSE IF header # None /\ HEADERS_SET # {}
            THEN (IF Val(header) \in HEADERS_SET THEN header ELSE None)
        ELSE IF header # None THEN header
        ELSE Some(capheader(lname))))

\* A variant of header_field that does not look at the set of the kind
header_field_any_kind(name, HEADERS_SET, strict) ==
    Let(Lower(name), LAMBDA lname :
        IF StartsWith(lname, <<"x", "-">>) THEN Some(capheader(lname))
        ELSE IF lname \in DOMAIN ALL_HEADER_FIELDS_DICT THEN Some(ALL_HEADER_FIELDS_DICT[lname])
        ELSE IF ~strict THEN Some(capheader(lname))
        ELSE None)

\* header_field(name, HEADERS_SET, strict): the stored form of a name, or
\* None.  HEADERS_SET = {} stands for the default HEADERS_SET=None.
header_field(name, HEADERS_SET, strict) ==
    Let(Lower(name), LAMBDA lname :
    Let(IF lname \in DOMAIN ALL_HEADER_FIELDS_DICT
        THEN Some(ALL_HEADER_FIELDS_DICT[lname]) ELSE None, LAMBDA header :
        IF StartsWith(lname, <<"x", "-">>) THEN Some(capheader(lname))
        ELSE IF header # None /\ HEADERS_SET # {}
            THEN (IF Val(header) \in HEADERS_SET THEN header ELSE None)
        ELSE IF header # None THEN header
        ELSE IF ~strict THEN Some(capheader(lname))
        ELSE None))

\* ------------------------------------------------------------------------
\* Headers: the container.  store is the dict _headers in insertion order,
\* a sequence of [key, values].
\* ------------------------------------------------------------------------
DictHas(d, k) == \E i \in DOMAIN d : d[i].key = k
DictGet(d, k) == d[CHOOSE i \in DOMAIN d : d[i].key = k].values
DictSet(d, k, v) ==
    IF DictHas(d, k)
    THEN [i \in DOMAIN d |-> IF d[i].key = k THEN [key |-> k, values |-> v] ELSE d[i]]
    ELSE Append(d, [key |-> k, values |-> v])

\* Headers(kind=kind): kind is a number here (the parser passes its kind)
NewHeaders(kind) ==
    [kind |-> IF kind \in {0, 1, 2} THEN HeaderType(kind) ELSE "both",
     strict |-> FALSE,
     store |-> <<>>]

all_headers(h) == TYPE_HEADER_FIELDS[h.kind]

\* A variant of key in headers that looks the key up as it is written
Headers_contains_exact(h, key) == DictHas(h.store, key)

\* key in headers
Headers_contains(h, key) ==
    Let(header_field(key, {}, FALSE), LAMBDA k :
        k # None /\ DictHas(h.store, Val(k)))

\* headers[key]; the caller has checked that key is in headers
Headers_getitem(h, key) ==
    JoinWith(<<",", SP>>, DictGet(h.store, Val(header_field(key, {}, FALSE))))

\* headers[key] = value, for a value that is one string
Headers_setitem(h, key, value) ==
    Let(header_field(key, all_headers(h), h.strict), LAMBDA k :
        IF k # None /\ Val(k) # <<>>
        THEN [h EXCEPT !.store = DictSet(@, Val(k), <<value>>)]
        ELSE h)

\* headers.get(key, default)
Headers_get(h, key, default) ==
    IF Headers_contains(h, key) THEN Some(Headers_getitem(h, key)) ELSE default

\* dict.pop(k): the dict without the key
DictPop(d, k) == SelectSeq(d, LAMBDA e : e.key # k)

\* A variant of add_header that appends the value whether or not the name
\* has it
Headers_add_header_appends(h, key, value) ==
    Let(header_field(key, all_headers(h), h.strict), LAMBDA k :
        IF k # None /\ Val(k) # <<>> /\ value # <<>>
        THEN Let(IF DictHas(h.store, Val(k)) THEN DictGet(h.store, Val(k)) ELSE <<>>, LAMBDA values :
                 [h EXCEPT !.store = DictSet(@, Val(k), Append(values, value))])
        ELSE h)

\* headers.add_header(key, value)
Headers_add_header(h, key, value) ==
    Let(header_field(key, all_headers(h), h.strict), LAMBDA k :
        IF k # None /\ Val(k) # <<>> /\ value # <<>>
        THEN Let(IF DictHas(h.store, Val(k)) THEN DictGet(h.store, Val(k)) ELSE <<>>, LAMBDA values :
                 IF \E i \in DOMAIN values : values[i] = value THEN h
                 ELSE [h EXCEPT !.store = DictSet(@, Val(k), Append(values, value))])
        ELSE h)

\* headers.update(iterable), for an iterable of (key, value) pairs
RECURSIVE Headers_update(_, _)
Headers_update(h, iterable) ==
    IF iterable = <<>> THEN h
    ELSE Headers_update(Headers_setitem(h, Head(iterable)[1], Head(iterable)[2]), Tail(iterable))

\* headers.pop(key, *args): [h, ret, exc]; args is <<>> or holds the default
Headers_pop(h, key, args) ==
    Let(header_field(key, {}, FALSE), LAMBDA k :
        IF k # None /\ DictHas(h.store, Val(k))
        THEN [h |-> [h EXCEPT !.store = DictPop(@, Val(k))],
              ret |-> DictGet(h.store, Val(k)), exc |-> ""]
        ELSE IF args # <<>> THEN [h |-> h, ret |-> args[1], exc |-> ""]
        ELSE [h |-> h, ret |-> <<>>, exc |-> "KeyError"])

\* iter(headers): the (key, value) pairs in the order of the dict
RECURSIVE Headers_iter(_)
Headers_iter(h) ==
    IF h.store = <<>> THEN <<>>
    ELSE [i \in DOMAIN Head(h.store).values |-> <<Head(h.store).key, Head(h.store).values[i]>>]
         \o Headers_iter([h EXCEPT !.store = Tail(@)])

\* A variant of len(headers) that counts the names
Headers_len_names(h) == Len(h.store)

\* len(headers): reduce(lambda x, y: x + len(y), values, 0)
RECURSIVE Headers_len(_)
Headers_len(h) ==
    IF h.store = <<>> THEN 0
    ELSE Headers_len([h EXCEPT !.store = SubSeq(@, 1, Len(@) - 1)]) + Len(h.store[Len(h.store)].values)

\* Headers(headers, kind=kind): a container of the kind filled by update
\* from an iterable of pairs; strict is left at its default
Headers_init(headers, kind) ==
    Headers_update([kind |-> kind, strict |-> FALSE, store |-> <<>>], headers)

\* headers.copy(): update iterates the container, which yields one
\* (key, value) pair per value
Headers_copy(h) == Headers_init(Headers_iter(h), h.kind)

\* '%s' % n for a number n >= 0
RECURSIVE IntStr(_)
IntStr(n) == IF n < 10 THEN <<DigitSeq[n + 1]>> ELSE IntStr(n \div 10) \o <<DigitSeq[(n % 10) + 1]>>

\* A variant of the order of the groups that starts with the entity group
GroupOrder_entity_first == <<"entity", "general", "request", "response">>

\* the order of the groups in _ordered
GroupOrder == <<"general", "request", "response", "entity">>

\* the keys of the dict that _ordered puts in the group, in the order of the dict
GroupKeys(d, g) ==
    SelectSeq(d, LAMBDA e :
        /\ e.key \in HEADER_FIELDS[GroupOrder[g]]
        /\ \A f \in 1..(g - 1) : e.key \notin HEADER_FIELDS[GroupOrder[f]])

\* headers._ordered(): the lines it yields
Headers_ordered(h) ==
    Let(GroupKeys(h.store, 1) \o GroupKeys(h.store, 2) \o GroupKeys(h.store, 3) \o GroupKeys(h.store, 4),
        LAMBDA keys :
            [i \in DOMAIN keys |-> keys[i].key \o <<":", SP>> \o JoinWith(<<",", SP>>, keys[i].values)]
            \o << <<>>, <<>> >>)

\* str(headers)
Headers_str(h) == JoinWith(CRLF, Headers_ordered(h))

\* headers.flat(version, status)
Headers_flat(h, version, status) ==
    <<"H", "T", "T", "P", "/">> \o IntStr(version[1]) \o <<".">> \o IntStr(version[2])
    \o <<SP>> \o status \o CRLF \o Headers_str(h)

\* ------------------------------------------------------------------------
\* HttpParser
\* ------------------------------------------------------------------------
\* METHOD_RE: the class [A-Z0-9$-_.], whose range $-_ runs from "$" to "_"
METHOD_CHARS ==
    UpperSet \cup Digits \cup
    {"$", "%", "&", "'", "(", ")", "*", "+", ",", "-", ".", "/", ":", ";",
     "<", "=", ">", "?", "@", "[", "\\", "]", "^", "_"}
\* \w and \s of STATUS_RE, within the alphabet
WORD_CHARS == UpperSet \cup LowerSet \cup Digits \cup {"_"}
\* HEADER_RE: the characters a header name must not hold
HEADER_CHARS ==
    {CR, LF, HT, SP, "(", ")", "<", ">", "@", ",", ";", ":", "[", "]", "=",
     "{", "}", "\\", "\""}

BAD_FIRST_LINE == 0
INVALID_HEADER == 1
INVALID_CHUNK == 2
NO_CONTENT == 204
NOT_MODIFIED == 304

\* METHOD_RE.match(s): three to twenty characters of the class at the start
METHOD_RE_match(s) == Span(s, METHOD_CHARS) >= 3

\* VERSION_RE.match(s) for HTTP/(\d+).(\d+): the two groups as numbers, or
\* None.  The unescaped dot takes any character but a line feed; when no
\* digit follows it the match backtracks into the first run of digits.
VERSION_RE_match(s) ==
    Let(SliceFrom(s, 5), LAMBDA t :
    Let(Span(t, Digits), LAMBDA k :
    Let(SliceFrom(t, k + 1), LAMBDA after :
    Let(Span(after, Digits), LAMBDA m :
        IF ~StartsWith(s, <<"H", "T", "T", "P", "/">>) THEN None
        ELSE IF k >= 1 /\ Len(t) > k /\ t[k + 1] # LF /\ m >= 1
            THEN Some(<<DigitsValue(SliceTo(t, k), 10), DigitsValue(SliceTo(after, m), 10)>>)
        ELSE IF k >= 3
            THEN Some(<<DigitsValue(SliceTo(t, k - 2), 10), DigitsValue(<<t[k]>>, 10)>>)
        ELSE None))))

\* STATUS_RE.match(s) for (\d{3})\s*(\w*): [code, reason], or None
STATUS_RE_match(s) ==
    Let(LStrip(SliceFrom(s, 3), Whitespace), LAMBDA afterWs :
        IF Len(s) >= 3 /\ \A i \in 1..3 : s[i] \in Digits
        THEN Some([code |-> DigitsValue(SliceTo(s, 3), 10),
                   reason |-> SliceTo(afterWs, Span(afterWs, WORD_CHARS))])
        ELSE None)

\* A variant of HEADER_RE.search that lets blanks through
HEADER_RE_search_blanks(name) == \E i \in DOMAIN name : name[i] \in HEADER_CHARS \ {SP, HT}

\* HEADER_RE.search(name)
HEADER_RE_search(name) == \E i \in DOMAIN name : name[i] \in HEADER_CHARS

\* urlsplit(url) of the standard library, for a request target without scheme
\* and authority: [path, query, fragment]
urlsplit(url) ==
    Let(Find(url, <<"#">>), LAMBDA h :
    Let(IF h < 0 THEN url ELSE SliceTo(url, h), LAMBDA noFrag :
    Let(Find(noFrag, <<"?">>), LAMBDA q :
        [path |-> IF q < 0 THEN noFrag ELSE SliceTo(noFrag, q),
         query |-> IF q < 0 THEN <<>> ELSE SliceFrom(noFrag, q + 1),
         fragment |-> IF h < 0 THEN <<>> ELSE SliceFrom(url, h + 1)])))

\* The list _buf is read only through b''.join(_buf), len(_buf) and its
\* truth value, so it is kept as the number of its chunks and their
\* concatenation.
EmptyBuf == [n |-> 0, bytes |-> <<>>]
\* [data]
BufOf(data) == [n |-> 1, bytes |-> data]
\* _buf.append(data)
BufAppend(buf, data) == [n |-> buf.n + 1, bytes |-> buf.bytes \o data]

\* HttpParser(kind): decompress is False in every parser of this model
NewParser(kind) ==
    [decompress |-> FALSE,
     errno |-> None,
     buf |-> EmptyBuf,
     version |-> None,
     method |-> None,
     status_code |-> None,
     status |-> None,
     reason |-> None,
     url |-> None,
     path |-> None,
     query_string |-> None,
     fragment |-> None,
     headers |-> NewHeaders(kind),
     chunked |-> FALSE,
     body |-> <<>>,
     trailers |-> None,
     partial_body |-> FALSE,
     clen |-> None,
     clen_rest |-> None,
     on_firstline |-> FALSE,
     on_headers_complete |-> FALSE,
     on_message_begin |-> FALSE,
     on_message_complete |-> FALSE]

\* the kind property
kind(p) == header_type_to_int(p.headers.kind)

\* What a step of the parser gives back: the parser after it and what was
\* raised, "" when nothing was.
Raise(p, exc) == [p |-> p, exc |-> exc]
Done(p) == [p |-> p, exc |-> ""]

parse_response_line(p, line) ==
    Let(SplitWS(line, 1), LAMBDA bits :
        IF Len(bits) # 2 THEN Raise(p, "InvalidRequestLine")
        ELSE Let(VERSION_RE_match(bits[1]), LAMBDA matchv :
            IF matchv = None THEN Raise(p, "InvalidRequestLine")
            ELSE Let(STATUS_RE_match(bits[2]), LAMBDA matchs :
                \* "Invalid status %" % bits[1] is an incomplete format
                IF matchs = None
                THEN Raise([p EXCEPT !.version = Some(Val(matchv))], "ValueError")
                ELSE Done([p EXCEPT !.version = Some(Val(matchv)),
                                    !.status = Some(bits[2]),
                                    !.status_code = Some(Val(matchs).code),
                                    !.reason = Some(Val(matchs).reason)]))))

parse_request_line(p, line) ==
    Let(SplitWS(line, 2), LAMBDA bits :
        IF Len(bits) # 3 THEN Raise(p, "InvalidRequestLine")
        ELSE IF ~METHOD_RE_match(bits[1]) THEN Raise(p, "InvalidRequestLine")
        ELSE Let(urlsplit(bits[2]), LAMBDA parts :
             Let([p EXCEPT !.method = Some(Upper(bits[1])),
                           !.url = Some(bits[2]),
                           !.path = Some(parts.path),
                           !.query_string = Some(parts.query),
                           !.fragment = Some(parts.fragment)], LAMBDA p1 :
             Let(VERSION_RE_match(bits[3]), LAMBDA match :
                IF match = None THEN Raise(p1, "InvalidRequestLine")
                ELSE Done([p1 EXCEPT !.version = Some(Val(match))])))))

\* _parse_firstline: [p, ok, exc]; ok is the value returned, exc what
\* escapes the method
parse_firstline(p, line) ==
    Let(IF kind(p) = 2
        THEN Let(parse_request_line(p, line), LAMBDA req :
                 IF req.exc = "InvalidRequestLine"
                 THEN parse_response_line(req.p, line) ELSE req)
        ELSE IF kind(p) = 1 THEN parse_response_line(p, line)
        ELSE parse_request_line(p, line), LAMBDA r :
        IF r.exc = "InvalidRequestLine"
        THEN [p |-> [r.p EXCEPT !.errno = Some(BAD_FIRST_LINE)], ok |-> FALSE, exc |-> ""]
        ELSE [p |-> r.p, ok |-> r.exc = "", exc |-> r.exc])

\* the number of lines at the head of lines that continue a header value
RECURSIVE Continuations(_)
Continuations(lines) ==
    IF lines # <<>> /\ (StartsWith(Head(lines), <<SP>>) \/ StartsWith(Head(lines), <<HT>>))
    THEN 1 + Continuations(Tail(lines))
    ELSE 0

\* A variant of the loop of _parse_headers that stores the value of a
\* repeated name in place of the value the container had
RECURSIVE parse_header_lines_overwrites(_, _)
parse_header_lines_overwrites(h, lines) ==
    IF lines = <<>> THEN [headers |-> h, invalid |-> FALSE]
    ELSE IF Find(Head(lines), <<":">>) < 0 THEN parse_header_lines_overwrites(h, Tail(lines))
    ELSE
        Let(SplitOnce(Head(lines), <<":">>), LAMBDA nv :
        Let(Upper(RStrip(nv[1], {SP, HT})), LAMBDA name :
            IF HEADER_RE_search(name) THEN [headers |-> h, invalid |-> TRUE]
            ELSE
                Let(Strip(name, Whitespace), LAMBDA stripped :
                Let(Continuations(Tail(lines)), LAMBDA n :
                Let(RStrip(Join(<<LStrip(nv[2], Whitespace)>> \o SubSeq(Tail(lines), 1, n)),
                           Whitespace), LAMBDA value :
                    parse_header_lines_overwrites(Headers_setitem(h, stripped, value),
                                                  SubSeq(Tail(lines), n + 1, Len(Tail(lines)))))))))

\* The loop of _parse_headers over the lines of the block: the container
\* after it, and whether InvalidHeader was raised on the way.
RECURSIVE parse_header_lines(_, _)
parse_header_lines(h, lines) ==
    IF lines = <<>> THEN [headers |-> h, invalid |-> FALSE]
    ELSE IF Find(Head(lines), <<":">>) < 0 THEN parse_header_lines(h, Tail(lines))
    ELSE
        Let(SplitOnce(Head(lines), <<":">>), LAMBDA nv :
        Let(Upper(RStrip(nv[1], {SP, HT})), LAMBDA name :
            IF HEADER_RE_search(name) THEN [headers |-> h, invalid |-> TRUE]
            ELSE
                Let(Strip(name, Whitespace), LAMBDA stripped :
                Let(Continuations(Tail(lines)), LAMBDA n :
                Let(RStrip(Join(<<LStrip(nv[2], Whitespace)>> \o SubSeq(Tail(lines), 1, n)),
                           Whitespace), LAMBDA value :
                Let(IF Headers_contains(h, stripped)
                    THEN Headers_getitem(h, stripped) \o <<",", SP>> \o value
                    ELSE value, LAMBDA stored :
                    parse_header_lines(Headers_setitem(h, stripped, stored),
                                       SubSeq(Tail(lines), n + 1, Len(Tail(lines))))))))))

\* has the status no content: the condition of _parse_headers
EmptyContent(status, method) ==
    /\ status # None
    /\ Val(status) # 0
    /\ \/ Val(status) = NO_CONTENT
       \/ Val(status) = NOT_MODIFIED
       \/ (100 <= Val(status) /\ Val(status) < 200)
       \/ method = Some(<<"H", "E", "A", "D">>)

\* A variant of the Content-Length of the framing that takes the header
\* as it is: for a chunked message too, and a negative number too
ContentLength_as_sent(clen, chunked) ==
    IF clen # None /\ Val(clen) # <<>> THEN PyInt(Val(clen), 10) ELSE None

\* the Content-Length the framing uses: int(clen), None when it is not a
\* number or is negative
ContentLength(clen, chunked) ==
    IF clen # None /\ Val(clen) # <<>> /\ ~chunked
    THEN Let(PyInt(Val(clen), 10), LAMBDA n :
             IF n = None THEN None ELSE IF Val(n) < 0 THEN None ELSE n)
    ELSE None

\* _parse_headers(data): ret is None for False and Some(n) for the number n
parse_headers(p, data) ==
    Let(Find(data, CRLFCRLF), LAMBDA idx :
        IF idx < 0 THEN [p |-> p, ret |-> None, exc |-> ""]
        ELSE
            Let(Split(SliceTo(data, idx), CRLF), LAMBDA split :
            Let(parse_header_lines(p.headers, [i \in DOMAIN split |-> split[i] \o CRLF]), LAMBDA r :
                IF r.invalid
                THEN [p |-> [p EXCEPT !.headers = r.headers], ret |-> None, exc |-> "InvalidHeader"]
                ELSE
                    Let(Headers_get(r.headers, <<"c", "o", "n", "t", "e", "n", "t", "-", "l", "e", "n", "g", "t", "h">>, None), LAMBDA clen0 :
                    Let(Lower(Val(Headers_get(r.headers, <<"t", "r", "a", "n", "s", "f", "e", "r", "-", "e", "n", "c", "o", "d", "i", "n", "g">>, Some(<<>>)))), LAMBDA te :
                    Let(te = <<"c", "h", "u", "n", "k", "e", "d">>, LAMBDA chunked :
                    Let(IF EmptyContent(p.status_code, p.method) THEN Some(0)
                        ELSE ContentLength(clen0, chunked), LAMBDA clen :
                    Let(SliceFrom(data, idx + 4), LAMBDA rest :
                        [p |-> [p EXCEPT !.headers = r.headers,
                                         !.chunked = chunked,
                                         !.clen = clen,
                                         !.clen_rest = clen,
                                         !.buf = BufOf(rest),
                                         !.on_headers_complete = TRUE],
                         ret |-> Some(Len(rest)), exc |-> ""]))))))))

\* _parse_trailers(data)
parse_trailers(p, data) ==
    IF SliceTo(data, 2) = CRLF
    THEN Let(parse_headers(p, SliceTo(data, Find(data, CRLFCRLF))), LAMBDA r :
             IF r.exc = "" THEN Done([r.p EXCEPT !.trailers = Some(r.ret)])
             ELSE Raise(r.p, r.exc))
    ELSE Done(p)

\* A variant of _parse_chunk_size that takes a size that is not a number for
\* a line that has not fully arrived
parse_chunk_size_waits(p, data) ==
    Let(Find(data, CRLF), LAMBDA idx :
        IF idx < 0 THEN [p |-> p, size |-> None, rest |-> <<>>, exc |-> ""]
        ELSE
            Let(SliceFrom(data, idx + 2), LAMBDA rest_chunk :
            Let(PyInt(Strip(SplitOnce(SliceTo(data, idx), <<";">>)[1], Whitespace), 16), LAMBDA chunk_size :
                IF chunk_size = None
                    THEN [p |-> p, size |-> None, rest |-> <<>>, exc |-> ""]
                ELSE IF Val(chunk_size) = 0
                    THEN Let(parse_trailers(p, rest_chunk), LAMBDA t :
                             [p |-> t.p, size |-> Some(0), rest |-> <<>>, exc |-> t.exc])
                ELSE [p |-> p, size |-> chunk_size, rest |-> rest_chunk, exc |-> ""])))

\* _parse_chunk_size(data): size is None or Some(n); rest is meaningful
\* only with a size that is a number other than zero
parse_chunk_size(p, data) ==
    Let(Find(data, CRLF), LAMBDA idx :
        IF idx < 0 THEN [p |-> p, size |-> None, rest |-> <<>>, exc |-> ""]
        ELSE
            Let(SliceFrom(data, idx + 2), LAMBDA rest_chunk :
            Let(PyInt(Strip(SplitOnce(SliceTo(data, idx), <<";">>)[1], Whitespace), 16), LAMBDA chunk_size :
                IF chunk_size = None
                    THEN [p |-> p, size |-> None, rest |-> <<>>, exc |-> "InvalidChunkSize"]
                ELSE IF Val(chunk_size) = 0
                    THEN Let(parse_trailers(p, rest_chunk), LAMBDA t :
                             [p |-> t.p, size |-> Some(0), rest |-> <<>>, exc |-> t.exc])
                ELSE [p |-> p, size |-> chunk_size, rest |-> rest_chunk, exc |-> ""])))

\* A variant of the identity branch that completes one byte late
parse_body_identity_late(p) ==
    LET data == p.buf.bytes
        clen_rest == IF p.clen_rest # None THEN Some(Val(p.clen_rest) - Len(data)) ELSE None
    IN  [p EXCEPT !.clen_rest = clen_rest,
                  !.partial_body = TRUE,
                  !.body = IF data # <<>> THEN Append(@, data) ELSE @,
                  !.buf = EmptyBuf,
                  !.on_message_complete = IF clen_rest = None \/ Val(clen_rest) < 0 THEN TRUE ELSE @]

\* A variant of the identity branch that completes only a message with a
\* declared length
parse_body_identity_length_only(p) ==
    LET data == p.buf.bytes
        clen_rest == IF p.clen_rest # None THEN Some(Val(p.clen_rest) - Len(data)) ELSE None
    IN  [p EXCEPT !.clen_rest = clen_rest,
                  !.partial_body = TRUE,
                  !.body = IF data # <<>> THEN Append(@, data) ELSE @,
                  !.buf = EmptyBuf,
                  !.on_message_complete = IF clen_rest # None /\ Val(clen_rest) <= 0 THEN TRUE ELSE @]

\* the identity branch of _parse_body
parse_body_identity(p) ==
    LET data == p.buf.bytes
        clen_rest == IF p.clen_rest # None THEN Some(Val(p.clen_rest) - Len(data)) ELSE None
    IN  [p EXCEPT !.clen_rest = clen_rest,
                  !.partial_body = TRUE,
                  !.body = IF data # <<>> THEN Append(@, data) ELSE @,
                  !.buf = EmptyBuf,
                  !.on_message_complete = IF clen_rest = None \/ Val(clen_rest) <= 0 THEN TRUE ELSE @]

\* A variant of the chunked branch that leaves the CRLF ending a chunk in
\* the buffer
parse_body_chunked_keeps_crlf(p) ==
    Let(parse_chunk_size(p, p.buf.bytes), LAMBDA c :
        IF c.exc = "InvalidChunkSize"
            THEN [p |-> [c.p EXCEPT !.errno = Some(INVALID_CHUNK)], ret |-> Some(-1), exc |-> ""]
        ELSE IF c.exc # "" THEN [p |-> c.p, ret |-> None, exc |-> c.exc]
        ELSE IF c.size = Some(0) THEN [p |-> c.p, ret |-> c.size, exc |-> ""]
        ELSE IF c.size = None \/ Len(c.rest) < Val(c.size) THEN [p |-> c.p, ret |-> None, exc |-> ""]
        ELSE
            Let(SliceTo(c.rest, Val(c.size)), LAMBDA body_part :
            Let(SliceFrom(c.rest, Val(c.size)), LAMBDA rest :
                IF Len(rest) < 2
                THEN [p |-> [c.p EXCEPT !.errno = Some(INVALID_CHUNK)], ret |-> Some(-1), exc |-> ""]
                ELSE [p |-> [c.p EXCEPT !.partial_body = TRUE,
                                        !.body = Append(@, body_part),
                                        !.buf = BufOf(rest)],
                      ret |-> Some(Len(rest)), exc |-> ""])))

\* the chunked branch of _parse_body
parse_body_chunked(p) ==
    Let(parse_chunk_size(p, p.buf.bytes), LAMBDA c :
        IF c.exc = "InvalidChunkSize"
            THEN [p |-> [c.p EXCEPT !.errno = Some(INVALID_CHUNK)], ret |-> Some(-1), exc |-> ""]
        ELSE IF c.exc # "" THEN [p |-> c.p, ret |-> None, exc |-> c.exc]
        ELSE IF c.size = Some(0) THEN [p |-> c.p, ret |-> c.size, exc |-> ""]
        ELSE IF c.size = None \/ Len(c.rest) < Val(c.size) THEN [p |-> c.p, ret |-> None, exc |-> ""]
        ELSE
            Let(SliceTo(c.rest, Val(c.size)), LAMBDA body_part :
            Let(SliceFrom(c.rest, Val(c.size)), LAMBDA rest :
                IF Len(rest) < 2
                THEN [p |-> [c.p EXCEPT !.errno = Some(INVALID_CHUNK)], ret |-> Some(-1), exc |-> ""]
                ELSE [p |-> [c.p EXCEPT !.partial_body = TRUE,
                                        !.body = Append(@, body_part),
                                        !.buf = BufOf(SliceFrom(rest, 2))],
                      ret |-> Some(Len(rest)), exc |-> ""])))

\* _parse_body(): ret is None or Some(n)
parse_body(p) ==
    IF ~p.chunked
    THEN [p |-> parse_body_identity(p), ret |-> None, exc |-> ""]
    ELSE parse_body_chunked(p)

\* What execute gives back: the parser after the call, the value returned
\* and what was raised ("" when the call returned).
Return(p, n) == [p |-> p, ret |-> n, exc |-> ""]
Raised(p, exc) == [p |-> p, ret |-> 0, exc |-> exc]

\* A variant of close that marks the message begun and leaves its
\* completion to the body
close_begins_only(p, length) ==
    LET p1 == [p EXCEPT !.on_message_begin = TRUE]
    IN  IF p1.buf.n = 0 /\ p1.on_firstline
        THEN Return([p1 EXCEPT !.on_headers_complete = TRUE], length)
        ELSE Return(p1, length + p1.buf.n)

\* close(length)
close(p, length) ==
    LET p1 == [p EXCEPT !.on_message_begin = TRUE, !.on_message_complete = TRUE]
    IN  IF p1.buf.n = 0 /\ p1.on_firstline
        THEN Return([p1 EXCEPT !.on_headers_complete = TRUE], length)
        ELSE Return(p1, length + p1.buf.n)

\* the first branch of the loop of execute: the first line
RECURSIVE ExecuteLoop(_, _, _, _)
ExecuteFirstline(p, data, length, nb_parsed) ==
    Let(Find(data, CRLF), LAMBDA idx :
        IF idx < 0 THEN Return([p EXCEPT !.buf = BufAppend(@, data)], Len(data))
        ELSE
            Let([p EXCEPT !.on_firstline = TRUE, !.buf = BufAppend(@, SliceTo(data, idx))], LAMBDA p1 :
            Let(parse_firstline(p1, p1.buf.bytes), LAMBDA r :
                IF r.exc # "" THEN Raised(r.p, r.exc)
                ELSE IF r.ok
                    THEN ExecuteLoop([r.p EXCEPT !.buf = BufOf(SliceFrom(data, idx + 2))],
                                     <<>>, length, nb_parsed + idx + 2)
                ELSE Return(r.p, nb_parsed))))

\* A variant of the second branch that returns once the header block is
\* parsed, leaving the body to the next call
ExecuteHeaders_returns(p, data, length, nb_parsed) ==
    Let(IF data # <<>> THEN [p EXCEPT !.buf = BufAppend(@, data)] ELSE p, LAMBDA p1 :
    Let(parse_headers(p1, p1.buf.bytes), LAMBDA r :
        IF r.exc = "InvalidHeader"
            THEN Return([r.p EXCEPT !.errno = Some(INVALID_HEADER)], nb_parsed)
        ELSE IF r.ret = None
            THEN (IF p1.buf.bytes = CRLF
                  THEN close([p1 EXCEPT !.buf = EmptyBuf], length)
                  ELSE Return(p1, length))
        ELSE Return(r.p, length)))

\* the second branch: the header block
ExecuteHeaders(p, data, length, nb_parsed) ==
    Let(IF data # <<>> THEN [p EXCEPT !.buf = BufAppend(@, data)] ELSE p, LAMBDA p1 :
    Let(parse_headers(p1, p1.buf.bytes), LAMBDA r :
        IF r.exc = "InvalidHeader"
            THEN Return([r.p EXCEPT !.errno = Some(INVALID_HEADER)], nb_parsed)
        ELSE IF r.ret = None
            THEN (IF p1.buf.bytes = CRLF
                  THEN close([p1 EXCEPT !.buf = EmptyBuf], length)
                  ELSE Return(p1, length))
        ELSE ExecuteLoop(r.p, <<>>, length, nb_parsed + (Len(p1.buf.bytes) - Val(r.ret)))))

\* A variant of the third branch that does not mark the message as begun
ExecuteBody_no_begin(p, data, length, nb_parsed) ==
    Let(parse_body([p EXCEPT !.buf = IF data # <<>> THEN BufAppend(@, data) ELSE @]), LAMBDA r :
        IF r.exc # "" THEN Raised(r.p, r.exc)
        ELSE IF r.ret = None THEN Return(r.p, length)
        ELSE IF Val(r.ret) < 0 THEN Return(r.p, Val(r.ret))
        ELSE IF Val(r.ret) = 0
            THEN Return([r.p EXCEPT !.on_message_complete = TRUE], length)
        ELSE ExecuteLoop(r.p, <<>>, length, Max2(length, Val(r.ret))))

\* the third branch: the body
ExecuteBody(p, data, length, nb_parsed) ==
    Let(parse_body([p EXCEPT !.on_message_begin = TRUE,
                             !.buf = IF data # <<>> THEN BufAppend(@, data) ELSE @]), LAMBDA r :
        IF r.exc # "" THEN Raised(r.p, r.exc)
        ELSE IF r.ret = None THEN Return(r.p, length)
        ELSE IF Val(r.ret) < 0 THEN Return(r.p, Val(r.ret))
        ELSE IF Val(r.ret) = 0
            THEN Return([r.p EXCEPT !.on_message_complete = TRUE], length)
        ELSE ExecuteLoop(r.p, <<>>, length, Max2(length, Val(r.ret))))

\* the loop of execute
ExecuteLoop(p, data, length, nb_parsed) ==
    IF ~p.on_firstline THEN ExecuteFirstline(p, data, length, nb_parsed)
    ELSE IF ~p.on_headers_complete THEN ExecuteHeaders(p, data, length, nb_parsed)
    ELSE IF ~p.on_message_complete THEN ExecuteBody(p, data, length, nb_parsed)
    ELSE Return(p, 0)

\* execute(data, length)
execute(p, data, length) ==
    IF length = 0 THEN close(p, length) ELSE ExecuteLoop(p, data, length, 0)

\* A variant of recv_body that returns the last fragment only
recv_body_last(p) ==
    [p |-> [p EXCEPT !.body = <<>>, !.partial_body = FALSE],
     body |-> IF p.body = <<>> THEN <<>> ELSE p.body[Len(p.body)]]

\* recv_body(): the parser after the call and the bytes returned
recv_body(p) ==
    [p |-> [p EXCEPT !.body = <<>>, !.partial_body = FALSE], body |-> Join(p.body)]

\* ------------------------------------------------------------------------
\* The messages a transport delivers, and the kind of the parser reading each
\* ------------------------------------------------------------------------
\* 'GET / HTTP/1.1\r\nHost:x\r\n\r\n'
GetRequest ==
    <<"G", "E", "T", " ", "/", " ", "H", "T", "T", "P", "/", "1", ".", "1", "\r", "\n", "H", "o", "s", "t", ":", "x", "\r", "\n", "\r", "\n">>
\* 'HTTP/1.1 200 OK\r\nContent-Length:3\r\n\r\nabcd'
LengthResponse ==
    <<"H", "T", "T", "P", "/", "1", ".", "1", " ", "2", "0", "0", " ", "O", "K", "\r", "\n", "C", "o", "n", "t", "e", "n", "t", "-", "L", "e", "n", "g", "t", "h", ":", "3", "\r", "\n", "\r", "\n", "a", "b", "c", "d">>
\* 'HTTP/1.1 200 OK\r\nTransfer-Encoding:chunked\r\n\r\n2\r\nab\r\n1\r\nc\r\n0\r\n\r\n'
ChunkedResponse ==
    <<"H", "T", "T", "P", "/", "1", ".", "1", " ", "2", "0", "0", " ", "O", "K", "\r", "\n", "T", "r", "a", "n", "s", "f", "e", "r", "-", "E", "n", "c", "o", "d", "i", "n", "g", ":", "c", "h", "u", "n", "k", "e", "d", "\r", "\n", "\r", "\n", "2", "\r", "\n", "a", "b", "\r", "\n", "1", "\r", "\n", "c", "\r", "\n", "0", "\r", "\n", "\r", "\n">>
\* 'HTTP/1.1 200 OK\r\nServer:x\r\n\r\nab'
EofResponse ==
    <<"H", "T", "T", "P", "/", "1", ".", "1", " ", "2", "0", "0", " ", "O", "K", "\r", "\n", "S", "e", "r", "v", "e", "r", ":", "x", "\r", "\n", "\r", "\n", "a", "b">>
\* 'HTTP/1.1 200 OK\r\nTransfer-Encoding:chunked\r\n\r\n1\r\na\r\nZ\r\nb\r\n'
BadChunkResponse ==
    <<"H", "T", "T", "P", "/", "1", ".", "1", " ", "2", "0", "0", " ", "O", "K", "\r", "\n", "T", "r", "a", "n", "s", "f", "e", "r", "-", "E", "n", "c", "o", "d", "i", "n", "g", ":", "c", "h", "u", "n", "k", "e", "d", "\r", "\n", "\r", "\n", "1", "\r", "\n", "a", "\r", "\n", "Z", "\r", "\n", "b", "\r", "\n">>
\* 'HTTP/1.1 abc\r\n\r\n'
BadStatusResponse ==
    <<"H", "T", "T", "P", "/", "1", ".", "1", " ", "a", "b", "c", "\r", "\n", "\r", "\n">>
\* 'GET /\r\nHost:x\r\n\r\n'
BadRequest ==
    <<"G", "E", "T", " ", "/", "\r", "\n", "H", "o", "s", "t", ":", "x", "\r", "\n", "\r", "\n">>

\* 'HTTP/1.1 200 OK\r\nTransfer-Encoding:chunked\r\n\r\n1\r\naXY0\r\n\r\n'
BadTerminatorResponse ==
    <<"H", "T", "T", "P", "/", "1", ".", "1", " ", "2", "0", "0", " ", "O", "K", "\r", "\n", "T", "r", "a", "n", "s", "f", "e", "r", "-", "E", "n", "c", "o", "d", "i", "n", "g", ":", "c", "h", "u", "n", "k", "e", "d", "\r", "\n", "\r", "\n", "1", "\r", "\n", "a", "X", "Y", "0", "\r", "\n", "\r", "\n">>
\* 'GET\r\nA:b\r\n\r\n'
ShortBadRequest ==
    <<"G", "E", "T", "\r", "\n", "A", ":", "b", "\r", "\n", "\r", "\n">>
\* 'GET / HTTP/1.1\r\nA:b\r\nC d:e\r\n\r\nx'
InvalidHeaderRequest ==
    <<"G", "E", "T", " ", "/", " ", "H", "T", "T", "P", "/", "1", ".", "1", "\r", "\n", "A", ":", "b", "\r", "\n", "C", " ", "d", ":", "e", "\r", "\n", "\r", "\n", "x">>
\* 'HTTP/1.1 204\r\nTransfer-Encoding:chunked\r\n\r\n'
NoContentResponse ==
    <<"H", "T", "T", "P", "/", "1", ".", "1", " ", "2", "0", "4", "\r", "\n", "T", "r", "a", "n", "s", "f", "e", "r", "-", "E", "n", "c", "o", "d", "i", "n", "g", ":", "c", "h", "u", "n", "k", "e", "d", "\r", "\n", "\r", "\n">>
\* 'HEAD / HTTP/1.1\r\nContent-Length:1\r\n\r\n'
HeadRequest ==
    <<"H", "E", "A", "D", " ", "/", " ", "H", "T", "T", "P", "/", "1", ".", "1", "\r", "\n", "C", "o", "n", "t", "e", "n", "t", "-", "L", "e", "n", "g", "t", "h", ":", "1", "\r", "\n", "\r", "\n">>
\* 'HTTP/1.1 200 OK\r\nTransfer-Encoding:chunked\r\n\r\n0\r\nA:b\r\n\r\n'
TrailerResponse ==
    <<"H", "T", "T", "P", "/", "1", ".", "1", " ", "2", "0", "0", " ", "O", "K", "\r", "\n", "T", "r", "a", "n", "s", "f", "e", "r", "-", "E", "n", "c", "o", "d", "i", "n", "g", ":", "c", "h", "u", "n", "k", "e", "d", "\r", "\n", "\r", "\n", "0", "\r", "\n", "A", ":", "b", "\r", "\n", "\r", "\n">>
\* 'GET / HTTP/1.1\r\nA:b\r\n c\r\n\r\n'
FoldedRequest ==
    <<"G", "E", "T", " ", "/", " ", "H", "T", "T", "P", "/", "1", ".", "1", "\r", "\n", "A", ":", "b", "\r", "\n", " ", "c", "\r", "\n", "\r", "\n">>
\* 'GET / HTTP/1.1\r\nA:b\r\nA:c\r\n\r\n'
RepeatedRequest ==
    <<"G", "E", "T", " ", "/", " ", "H", "T", "T", "P", "/", "1", ".", "1", "\r", "\n", "A", ":", "b", "\r", "\n", "A", ":", "c", "\r", "\n", "\r", "\n">>

\* 'HTTP/1.1 200 OK\r\nContent-Length:1\r\nTransfer-Encoding:Chunked\r\n\r\n1\r\na\r\n0\r\n\r\n'
ChunkedLengthResponse ==
    <<"H", "T", "T", "P", "/", "1", ".", "1", " ", "2", "0", "0", " ", "O", "K", "\r", "\n", "C", "o", "n", "t", "e", "n", "t", "-", "L", "e", "n", "g", "t", "h", ":", "1", "\r", "\n", "T", "r", "a", "n", "s", "f", "e", "r", "-", "E", "n", "c", "o", "d", "i", "n", "g", ":", "C", "h", "u", "n", "k", "e", "d", "\r", "\n", "\r", "\n", "1", "\r", "\n", "a", "\r", "\n", "0", "\r", "\n", "\r", "\n">>
\* 'HTTP/1.1 200 OK\r\nContent-Length:-1\r\n\r\na'
NegativeLengthResponse ==
    <<"H", "T", "T", "P", "/", "1", ".", "1", " ", "2", "0", "0", " ", "O", "K", "\r", "\n", "C", "o", "n", "t", "e", "n", "t", "-", "L", "e", "n", "g", "t", "h", ":", "-", "1", "\r", "\n", "\r", "\n", "a">>
\* 'HTTP/1.1 200 OK\r\nContent-Length:x\r\n\r\na'
BadLengthResponse ==
    <<"H", "T", "T", "P", "/", "1", ".", "1", " ", "2", "0", "0", " ", "O", "K", "\r", "\n", "C", "o", "n", "t", "e", "n", "t", "-", "L", "e", "n", "g", "t", "h", ":", "x", "\r", "\n", "\r", "\n", "a">>

Inputs ==
    { [kind |-> 0, message |-> GetRequest],
      [kind |-> 1, message |-> LengthResponse],
      [kind |-> 1, message |-> ChunkedResponse],
      [kind |-> 1, message |-> EofResponse],
      [kind |-> 1, message |-> BadChunkResponse],
      [kind |-> 1, message |-> BadStatusResponse],
      [kind |-> 2, message |-> BadStatusResponse],
      [kind |-> 0, message |-> BadRequest],
      [kind |-> 1, message |-> BadTerminatorResponse],
      [kind |-> 0, message |-> ShortBadRequest],
      [kind |-> 0, message |-> InvalidHeaderRequest],
      [kind |-> 1, message |-> NoContentResponse],
      [kind |-> 0, message |-> HeadRequest],
      [kind |-> 1, message |-> TrailerResponse],
      [kind |-> 0, message |-> FoldedRequest],
      [kind |-> 0, message |-> RepeatedRequest],
      [kind |-> 2, message |-> GetRequest],
      [kind |-> 2, message |-> EofResponse],
      [kind |-> 1, message |-> ChunkedLengthResponse],
      [kind |-> 1, message |-> NegativeLengthResponse],
      [kind |-> 1, message |-> BadLengthResponse] }

\* the most bytes one execute call is given, unless it is given all that is left
MaxPiece == 2

\* ------------------------------------------------------------------------
\* The state machine: one parser and its caller
\* ------------------------------------------------------------------------
VARIABLES
    parser,     \* the HttpParser
    input,      \* the bytes of the message not yet given to execute
    fed,        \* the bytes given to execute so far
    op,         \* the last call: "new", "execute", "eof" or "recv_body"
    ret,        \* the value the last execute call returned
    exc,        \* what the last call raised, "" when it returned
    received,   \* the bytes the last recv_body returned
    delivered,  \* all the bytes recv_body has returned, in order
    eof         \* has execute been called with length 0

vars == <<parser, input, fed, op, ret, exc, received, delivered, eof>>

Init ==
    /\ \E i \in Inputs :
        /\ parser = NewParser(i.kind)
        /\ input = i.message
    /\ fed = <<>>
    /\ op = "new"
    /\ ret = 0
    /\ exc = ""
    /\ received = <<>>
    /\ delivered = <<>>
    /\ eof = FALSE

\* execute(data, len(data)) with the next n bytes of the message
Execute(n) ==
    \E data \in {SubSeq(input, 1, n)} : \E r \in {execute(parser, data, Len(data))} :
        /\ parser' = r.p
        /\ ret' = r.ret
        /\ exc' = r.exc
        /\ input' = SubSeq(input, n + 1, Len(input))
        /\ fed' = fed \o data
        /\ op' = "execute"
        /\ UNCHANGED <<received, delivered, eof>>

\* execute(b'', 0): the caller signals the end of the stream
Eof ==
    \E r \in {execute(parser, <<>>, 0)} :
        /\ parser' = r.p
        /\ ret' = r.ret
        /\ exc' = r.exc
        /\ op' = "eof"
        /\ eof' = TRUE
        /\ UNCHANGED <<input, fed, received, delivered>>

\* recv_body()
RecvBody ==
    \E r \in {recv_body(parser)} :
        /\ parser' = r.p
        /\ received' = r.body
        /\ delivered' = delivered \o r.body
        /\ op' = "recv_body"
        /\ exc' = ""
        /\ UNCHANGED <<input, fed, ret, eof>>

PieceSizes == (1..Min2(MaxPiece, Len(input))) \cup (IF input = <<>> THEN {} ELSE {Len(input)})

Next ==
    \/ \E n \in PieceSizes : Execute(n)
    \/ Eof
    \/ RecvBody

Spec == Init /\ [][Next]_vars

\* ------------------------------------------------------------------------
\* The container on its own: the calls of a caller on the Headers of a
\* fresh parser.  received holds what the last pop returned.
\* ------------------------------------------------------------------------
\* the most values a container is filled with
MaxValues == 2

\* the names and values the calls are given
HeaderNames ==
    { <<"h", "o", "s", "t">>, <<"H", "O", "S", "T">>, <<"S", "e", "r", "v", "e", "r">>,
      <<"x", "-", "f", "r", "a", "m", "e", "-", "o", "p", "t", "i", "o", "n", "s">>,
      <<"X", "-", "R", "e", "q", "u", "e", "s", "t", "e", "d", "-", "W", "i", "t", "h">> }
HeaderValues == { <<>>, <<"a">>, <<"b">> }
\* the iterables update is given: two pairs each
HeaderPairs ==
    { <<a, b>> : a \in { <<<<"h", "o", "s", "t">>, <<"a">>>>, <<<<"S", "e", "r", "v", "e", "r">>, <<>>>> },
                 b \in { <<<<"H", "O", "S", "T">>, <<"b">>>>,
                         <<<<"x", "-", "f", "r", "a", "m", "e", "-", "o", "p", "t", "i", "o", "n", "s">>, <<"a">>>> } }

HeadersInit ==
    /\ \E k \in {0, 1, 2} : parser = NewParser(k)
    /\ input = <<>>
    /\ fed = <<>>
    /\ op = "new"
    /\ ret = 0
    /\ exc = ""
    /\ received = <<>>
    /\ delivered = <<>>
    /\ eof = FALSE

\* headers[key] = value
SetItem(key, value) ==
    \E h \in {Headers_setitem(parser.headers, key, value)} :
        /\ Headers_len(h) <= MaxValues
        /\ parser' = [parser EXCEPT !.headers = h]
        /\ op' = "set"
        /\ exc' = ""
        /\ UNCHANGED <<input, fed, ret, received, delivered, eof>>

\* headers.add_header(key, value)
AddHeader(key, value) ==
    \E h \in {Headers_add_header(parser.headers, key, value)} :
        /\ Headers_len(h) <= MaxValues
        /\ parser' = [parser EXCEPT !.headers = h]
        /\ op' = "add"
        /\ exc' = ""
        /\ UNCHANGED <<input, fed, ret, received, delivered, eof>>

\* headers.update(iterable)
Update(iterable) ==
    \E h \in {Headers_update(parser.headers, iterable)} :
        /\ Headers_len(h) <= MaxValues
        /\ parser' = [parser EXCEPT !.headers = h]
        /\ op' = "update"
        /\ exc' = ""
        /\ UNCHANGED <<input, fed, ret, received, delivered, eof>>

\* headers.pop(key, *args)
Pop(key, args) ==
    \E r \in {Headers_pop(parser.headers, key, args)} :
        /\ parser' = [parser EXCEPT !.headers = r.h]
        /\ received' = r.ret
        /\ exc' = r.exc
        /\ op' = "pop"
        /\ UNCHANGED <<input, fed, ret, delivered, eof>>

HeadersNext ==
    \/ \E key \in HeaderNames, value \in HeaderValues : SetItem(key, value)
    \/ \E key \in HeaderNames, value \in HeaderValues : AddHeader(key, value)
    \/ \E iterable \in HeaderPairs : Update(iterable)
    \/ \E key \in HeaderNames, args \in {<<>>, << <<>> >>} : Pop(key, args)

HeadersSpec == HeadersInit /\ [][HeadersNext]_vars

\* ------------------------------------------------------------------------
\* The container of either strictness, filled with names of every group of
\* the registry and names outside it, and copied.
\* ------------------------------------------------------------------------
ContainerNames ==
    { <<"d", "a", "t", "e">>, <<"h", "o", "s", "t">>, <<"S", "e", "r", "v", "e", "r">>,
      <<"e", "t", "a", "g">>, <<"c", "o", "n", "t", "e", "n", "t", "-", "l", "e", "n", "g", "t", "h">>,
      <<"f", "o", "o">>, <<"x", "-", "a">>, <<"-">> }
ContainerValues == { <<"a">>, <<"b">> }

ContainerInit ==
    /\ \E k \in {0, 1, 2}, strict \in BOOLEAN :
        parser = [NewParser(k) EXCEPT !.headers.strict = strict]
    /\ input = <<>>
    /\ fed = <<>>
    /\ op = "new"
    /\ ret = 0
    /\ exc = ""
    /\ received = <<>>
    /\ delivered = <<>>
    /\ eof = FALSE

\* headers = headers.copy()
Copy ==
    /\ parser' = [parser EXCEPT !.headers = Headers_copy(@)]
    /\ op' = "copy"
    /\ exc' = ""
    /\ UNCHANGED <<input, fed, ret, received, delivered, eof>>

ContainerNext ==
    \/ \E key \in ContainerNames, value \in ContainerValues : SetItem(key, value)
    \/ \E key \in ContainerNames, value \in ContainerValues : AddHeader(key, value)
    \/ Copy

ContainerSpec == ContainerInit /\ [][ContainerNext]_vars

\* ------------------------------------------------------------------------
\* The accessors of the parser
\* ------------------------------------------------------------------------
is_headers_complete(p) == p.on_headers_complete
is_partial_body(p) == p.partial_body
is_message_begin(p) == p.on_message_begin
is_message_complete(p) == p.on_message_complete
is_chunked(p) == p.chunked

\* ------------------------------------------------------------------------
\* What the properties speak of
\* ------------------------------------------------------------------------
TRANSFER_ENCODING == <<"t", "r", "a", "n", "s", "f", "e", "r", "-", "e", "n", "c", "o", "d", "i", "n", "g">>
CONTENT_LENGTH == <<"c", "o", "n", "t", "e", "n", "t", "-", "l", "e", "n", "g", "t", "h">>
CHUNKED == <<"c", "h", "u", "n", "k", "e", "d">>

\* the whole message the transport delivers
Message == fed \o input
\* the number of bytes up to the end of the header terminator
HeaderEnd == Find(Message, CRLFCRLF) + 4
\* the bytes of the message after the header terminator
MessageBody == SliceFrom(Message, HeaderEnd)
\* the number of body bytes given to execute so far
BodyFed == Len(fed) - HeaderEnd
\* every body byte the parser has made available: what recv_body has
\* returned and what the next recv_body would return
TotalBody == delivered \o Join(parser.body)

IsPrefix(a, b) == Len(a) <= Len(b) /\ SubSeq(b, 1, Len(a)) = a

\* The chunked coding as RFC 2616 3.6.1 defines it, read from offset pos of
\* body b: the status is "complete" at the zero-size chunk line, "bad_size"
\* at a size line that is not hexadecimal, "bad_terminator" when a chunk's
\* data is not followed by CRLF and "incomplete" when b ends first; payload
\* is the data of the chunks before that point and pos the offset just
\* after the last line read.
HEX_CHARS == Digits \cup HexLetters \cup {"A", "B", "C", "D", "E", "F"}
RECURSIVE RefChunks(_, _, _)
RefChunks(b, pos, acc) ==
    LET rest == SliceFrom(b, pos)
        idx == Find(rest, CRLF)
        sizeText == SplitOnce(SliceTo(rest, idx), <<";">>)[1]
        isHex == sizeText # <<>> /\ \A i \in DOMAIN sizeText : sizeText[i] \in HEX_CHARS
        size == DigitsValue(sizeText, 16)
        start == pos + idx + 2
    IN  IF idx < 0 THEN [status |-> "incomplete", payload |-> acc, pos |-> pos]
        ELSE IF ~isHex THEN [status |-> "bad_size", payload |-> acc, pos |-> start]
        ELSE IF size = 0 THEN [status |-> "complete", payload |-> acc, pos |-> start]
        ELSE IF Len(b) < start + size + 2
            THEN [status |-> "incomplete", payload |-> acc, pos |-> start]
        ELSE IF Slice(b, start + size, start + size + 2) # CRLF
            THEN [status |-> "bad_terminator", payload |-> acc, pos |-> start]
        ELSE RefChunks(b, start + size + 2, acc \o Slice(b, start, start + size))

RefBody == RefChunks(MessageBody, 0, <<>>)

\* the header block has been parsed and the container holds
\* Transfer-Encoding: chunked
ChunkedHeaders ==
    /\ is_headers_complete(parser)
    /\ Lower(Val(Headers_get(parser.headers, TRANSFER_ENCODING, Some(<<>>)))) = CHUNKED

\* the fields of the parser a caller observes through its accessors, with
\* the body as recv_body gives it
Observable(p, drained) ==
    [version |-> p.version, method |-> p.method, url |-> p.url, path |-> p.path,
     query_string |-> p.query_string, fragment |-> p.fragment,
     status_code |-> p.status_code, status |-> p.status, reason |-> p.reason,
     headers |-> p.headers, body |-> drained \o Join(p.body),
     trailers |-> p.trailers,
     headers_complete |-> is_headers_complete(p),
     message_complete |-> is_message_complete(p),
     errno |-> p.errno]

\* the parser after one execute call with everything fed so far
OneCall == execute(NewParser(kind(parser)), fed, Len(fed))

\* ------------------------------------------------------------------------
\* Properties
\* ------------------------------------------------------------------------

\* C1 (resumability): whatever the pieces a byte sequence is fed in, one
\* execute call each, the parser ends in the same state (first-line fields,
\* headers, body as recv_body returns it, trailers, completion flags, errno)
\* as a fresh parser fed the sequence in a single call.
C1_Resumable ==
    (fed # <<>> /\ ~eof /\ exc = "" /\ OneCall.exc = "")
        => Observable(parser, delivered) = Observable(OneCall.p, <<>>)

\* C2 (chunked decoding): for a message with Transfer-Encoding: chunked
\* whose body is well-formed chunks ended by a zero-size chunk, is_chunked()
\* is true, the message is complete exactly from the call that feeds the end
\* of the zero-size chunk line, and the body made available is the
\* concatenation of the chunk payloads in order (a prefix of it before).
C2_ChunkedDecoding ==
    (ChunkedHeaders /\ RefBody.status = "complete" /\ ~eof) =>
        /\ is_chunked(parser)
        /\ is_message_complete(parser) <=> (BodyFed >= RefBody.pos)
        /\ IsPrefix(TotalBody, RefBody.payload)
        /\ is_message_complete(parser) => TotalBody = RefBody.payload

\* C2 witness: a chunked message of two chunks decoded to completion, its
\* body fed in more than one call and drained
C2_Witness ==
    /\ ChunkedHeaders /\ RefBody.status = "complete" /\ ~eof
    /\ is_message_complete(parser)
    /\ Len(RefBody.payload) >= 3
    /\ BodyFed = RefBody.pos
    /\ delivered = RefBody.payload
    /\ received # delivered

\* identity framing with a declared length n > 0
IdentityLength ==
    /\ is_headers_complete(parser)
    /\ ~is_chunked(parser)
    /\ parser.clen # None
    /\ Val(parser.clen) > 0

\* C3 (Content-Length framing): with identity framing and Content-Length
\* n > 0, after the headers are complete the message is not complete while
\* fewer than n body bytes have been fed and is complete from the call in
\* which their number reaches n; the body bytes fed up to then are available
\* through recv_body.
C3_ContentLength ==
    (IdentityLength /\ ~eof) =>
        /\ is_message_complete(parser) <=> (BodyFed >= Val(parser.clen))
        /\ ~is_message_complete(parser) => TotalBody = SliceTo(MessageBody, BodyFed)
        /\ IsPrefix(TotalBody, MessageBody)
        /\ is_message_complete(parser) => Len(TotalBody) >= Val(parser.clen)

\* C3 witness: the declared length reached after a call that left the body short
C3_Witness ==
    /\ IdentityLength /\ ~eof
    /\ is_message_complete(parser)
    /\ op = "execute"
    /\ delivered # <<>>
    /\ Len(delivered) < Val(parser.clen)
    /\ Len(TotalBody) = Val(parser.clen)

\* no Content-Length, not chunked: clen_rest is undefined
NoLength ==
    /\ is_headers_complete(parser)
    /\ ~is_chunked(parser)
    /\ parser.clen_rest = None

NoFramingHeaders ==
    /\ ~Headers_contains(parser.headers, CONTENT_LENGTH)
    /\ Lower(Val(Headers_get(parser.headers, TRANSFER_ENCODING, Some(<<>>)))) # CHUNKED

\* C5 (request without framing headers): a request (kind 0) whose header
\* block carries neither Content-Length nor Transfer-Encoding: chunked is
\* complete once its header block has been parsed, with no end-of-stream call.
C5_RequestComplete ==
    (kind(parser) = 0 /\ is_headers_complete(parser) /\ NoFramingHeaders)
        => is_message_complete(parser)

\* C5 witness: a request with a header, complete after the call that fed the
\* header terminator
C5_Witness ==
    /\ kind(parser) = 0 /\ is_headers_complete(parser) /\ NoFramingHeaders
    /\ ~eof
    /\ parser.method = Some(<<"G", "E", "T">>)
    /\ parser.headers.store # <<>>
    /\ op = "execute"
    /\ Len(fed) = HeaderEnd
    /\ is_message_complete(parser)

\* C6 (nothing after completion): once is_message_complete() is true every
\* further execute call, whatever its data and length, returns 0 and changes
\* nothing of the parser.
C6_CompleteIsFinal ==
    [][ (is_message_complete(parser) /\ op' \in {"execute", "eof"})
            => (ret' = 0 /\ exc' = "" /\ parser' = parser) ]_vars

C8_NeverRaises == exc = ""

\* C9 (invalid chunk size): once a chunk-size line that is not a hexadecimal
\* number has been fed, errno is INVALID_CHUNK, execute returns -1, the
\* message is not complete and the body holds the data of the chunks before
\* that line only.
C9_InvalidChunkSize ==
    (ChunkedHeaders /\ is_chunked(parser) /\ ~eof
        /\ RefBody.status = "bad_size" /\ BodyFed >= RefBody.pos) =>
        /\ parser.errno = Some(INVALID_CHUNK)
        /\ (op = "execute" => ret = -1)
        /\ ~is_message_complete(parser)
        /\ TotalBody = RefBody.payload

\* C9 witness: the bad size line met after a chunk that was decoded, and
\* bytes fed after it
C9_Witness ==
    /\ ChunkedHeaders /\ is_chunked(parser) /\ ~eof
    /\ RefBody.status = "bad_size" /\ BodyFed > RefBody.pos
    /\ RefBody.payload # <<>>
    /\ op = "execute" /\ ret = -1

\* the buffer of a chunked body starts with a size line announcing
\* size > 0 and holds fewer than size + 2 bytes after it
ChunkPending(p) ==
    LET r == RefChunks(p.buf.bytes, 0, <<>>)
        idx == Find(p.buf.bytes, CRLF)
    IN  /\ is_headers_complete(p) /\ is_chunked(p)
        /\ idx >= 0
        /\ r.status = "incomplete"
        /\ r.pos = idx + 2

\* C10 (chunk pause): when an execute call leaves a chunk whose size line
\* has been read but whose data or CRLF terminator has not fully arrived,
\* the call returns without error (errno as it was, the value returned not
\* negative) and without completing the message.
C10_ChunkPause ==
    [][ (op' = "execute" /\ ~eof /\ ChunkPending(parser')) =>
            /\ parser'.errno = parser.errno
            /\ ret' >= 0
            /\ ~is_message_complete(parser')
      ]_vars

\* the chunked coding read from the body bytes given to execute so far
RefFed == RefChunks(SliceTo(MessageBody, Max2(BodyFed, 0)), 0, <<>>)

\* C11 (chunk terminator): once the two bytes that follow the data of a
\* chunk have been fed and are not CR LF, errno is INVALID_CHUNK, the execute
\* call returns -1, the message is not complete and the data of that chunk
\* is not in the body.
C11_ChunkTerminator ==
    (ChunkedHeaders /\ is_chunked(parser) /\ ~eof /\ RefFed.status = "bad_terminator") =>
        /\ parser.errno = Some(INVALID_CHUNK)
        /\ (op = "execute" => ret = -1)
        /\ ~is_message_complete(parser)
        /\ TotalBody = RefFed.payload

\* C12 (bad first line is final): once the first line has failed to parse
\* (errno BAD_FIRST_LINE), no execute call with more bytes takes the parser
\* on to the header block: is_headers_complete() stays false.
C12_BadFirstLineIsFinal ==
    (parser.errno = Some(BAD_FIRST_LINE) /\ ~eof) => ~is_headers_complete(parser)

\* the bytes an execute step has given to the parser
StepData == SubSeq(fed', Len(fed) + 1, Len(fed'))
\* The header block an execute step hands whole to _parse_headers, as a set
\* of at most one element: the bytes before the first CRLF CRLF of what the
\* buffer held and the new bytes, or of what follows the first line when the
\* step reads it too.
SeenBlocks ==
    IF op' # "execute" \/ parser.on_headers_complete THEN {}
    ELSE
        LET given ==
                IF parser.on_firstline THEN {parser.buf.bytes \o StepData}
                ELSE IF parser'.errno # Some(BAD_FIRST_LINE) /\ exc' = ""
                    THEN {SliceFrom(data, Find(data, CRLF) + 2) :
                            data \in {d \in {StepData} : Find(d, CRLF) >= 0}}
                ELSE {}
        IN  {SliceTo(t, Find(t, CRLFCRLF)) : t \in {u \in given : Find(u, CRLFCRLF) >= 0}}
\* the lines of a header block, as a set
BlockLines(block) == UNION {{lines[i] : i \in DOMAIN lines} : lines \in {Split(block, CRLF)}}
\* the characters a header name must not hold
ForbiddenNameChars ==
    {CR, LF, HT, SP, "(", ")", "<", ">", "@", ",", ";", ":", "[", "]", "=",
     "{", "}", "\\", "\""}
\* a line that opens a header (not a continuation) whose name, the text
\* before the first colon less trailing blanks, holds a forbidden character
BadNameLine(line) ==
    /\ line # <<>>
    /\ line[1] \notin {SP, HT}
    /\ \E c \in DOMAIN line :
        /\ line[c] = ":"
        /\ \A i \in 1..(c - 1) : line[i] # ":"
        /\ \E i \in 1..(c - 1) :
            /\ line[i] \in ForbiddenNameChars
            /\ \E j \in i..(c - 1) : line[j] \notin {SP, HT}

\* C13 (invalid header): the execute call that parses a header block with a
\* line whose name holds a forbidden character sets errno to INVALID_HEADER,
\* leaves is_headers_complete() false and adds no body; and whenever errno is
\* INVALID_HEADER the headers are not complete and no body has been produced.
C13_InvalidHeader ==
    [][ /\ (\E block \in SeenBlocks : \E line \in BlockLines(block) : BadNameLine(line)) =>
            /\ parser'.errno = Some(INVALID_HEADER)
            /\ ~is_headers_complete(parser')
            /\ parser'.body = <<>>
        /\ parser'.errno = Some(INVALID_HEADER) =>
            /\ ~is_headers_complete(parser')
            /\ parser'.body = <<>> /\ delivered' = <<>>
      ]_vars

\* C13 witness: the header block with a forbidden name has been fed whole,
\* the call returned with errno INVALID_HEADER and the headers not complete,
\* the line before the bad one being in the container
C13_Witness ==
    /\ input # <<>> /\ Len(fed) >= HeaderEnd /\ op = "execute"
    /\ parser.method # None
    /\ parser.errno = Some(INVALID_HEADER)
    /\ parser.headers.store # <<>>
    /\ ~is_headers_complete(parser)

\* C14 (statuses without content): once the header block of a response
\* with status 204, 304 or 1xx is parsed, the content length is 0 and the
\* message is not chunked whatever its headers say: is_chunked() is false and
\* is_message_complete() is true, with an empty body.
C14_NoContentStatus ==
    (/\ is_headers_complete(parser)
     /\ parser.status_code # None
     /\ \/ Val(parser.status_code) \in {204, 304}
        \/ Val(parser.status_code) \in 100..199) =>
        /\ parser.clen = Some(0)
        /\ ~is_chunked(parser)
        /\ is_message_complete(parser)
        /\ TotalBody = <<>>

\* C15 (HEAD): when the parsed method is HEAD, header parsing forces the
\* content length to 0 and chunked to false as it does for a 204, 304 or
\* 1xx response: a HEAD message, whatever its Content-Length header, is
\* complete right after its header block.
C15_HeadHasNoBody ==
    (/\ is_headers_complete(parser)
     /\ parser.method = Some(<<"H", "E", "A", "D">>)) =>
        /\ parser.clen = Some(0)
        /\ ~is_chunked(parser)
        /\ is_message_complete(parser)

\* The trailer fields of the chunked body given to execute so far, as a set
\* of at most one element: the bytes between the zero-size chunk line and the
\* CRLF CRLF that ends them, when there are fields and all of them have been
\* given.
FedTrailers ==
    {SliceTo(t, Find(t, CRLFCRLF)) :
        t \in {u \in {SliceFrom(SliceTo(MessageBody, Max2(BodyFed, 0)), r.pos) :
                        r \in {c \in {RefFed} : c.status = "complete"}} :
                    Find(u, CRLFCRLF) > 0}}

\* the container the header-block algorithm fills from a block, starting
\* from a fresh one
FreshContainer(block) ==
    UNION {{parse_header_lines(NewHeaders(kind(parser)),
                               [i \in DOMAIN lines |-> lines[i] \o CRLF]).headers} :
            lines \in {Split(block, CRLF)}}

\* C16 (trailers): for a chunked message whose zero-size chunk is followed by
\* trailer fields ended by CRLF CRLF, trailers is a fresh container filled
\* from the trailer block by the header-block algorithm and the headers of
\* the message is complete; trailers is never anything but unset or a
\* container, so never the False that _parse_headers returns.
C16_Trailers ==
    /\ (ChunkedHeaders /\ is_chunked(parser) /\ ~eof /\ parser.errno = None) =>
        \A block \in FedTrailers :
            /\ parser.trailers # None
            /\ Val(parser.trailers) \in FreshContainer(block)
            /\ is_message_complete(parser)
    /\ parser.trailers # None => Val(parser.trailers) # None

\* is the line a continuation line: one that begins with SP or HTAB
IsContinuation(line) == line # <<>> /\ line[1] \in {SP, HT}
\* is the line the first line of a header field
IsFieldLine(line) == Find(line, <<":">>) >= 0 /\ ~IsContinuation(line)
\* the name of a field line as a container key is looked up
FieldName(line) == Strip(SplitOnce(line, <<":">>)[1], Whitespace)
\* the characters of a string that are not whitespace
NoWhitespace(s) == SelectSeq(s, LAMBDA c : c \notin Whitespace)
\* the number of continuation lines that follow line i
RECURSIVE Folds(_, _)
Folds(lines, i) ==
    IF i < Len(lines) /\ IsContinuation(lines[i + 1]) THEN 1 + Folds(lines, i + 1) ELSE 0
\* The folded fields of a header block whose name occurs once in it: the name
\* and the pieces of the value, continuation lines included.
FoldedFields(block) ==
    UNION {{[name |-> FieldName(lines[i]),
             pieces |-> <<SplitOnce(lines[i], <<":">>)[2]>> \o SubSeq(lines, i + 1, i + Folds(lines, i))] :
                i \in {j \in DOMAIN lines :
                        /\ IsFieldLine(lines[j])
                        /\ Folds(lines, j) > 0
                        /\ \A k \in DOMAIN lines \ {j} :
                            IsFieldLine(lines[k]) => Lower(FieldName(lines[k])) # Lower(FieldName(lines[j]))}} :
            lines \in {Split(block, CRLF)}}

\* C17 (header folding): when a header block is parsed, a field line followed
\* by continuation lines gives one value made of the pieces, with no CR or
\* LF inside it and no whitespace at either end; between the pieces only
\* whitespace is added or dropped.
C17_HeaderFolding ==
    [][ (is_headers_complete(parser') /\ exc' = "") =>
            \A block \in SeenBlocks : \A f \in FoldedFields(block) :
                /\ Headers_contains(parser'.headers, f.name)
                /\ \A value \in {Headers_getitem(parser'.headers, f.name)} :
                    /\ \A i \in DOMAIN value : value[i] \notin {CR, LF}
                    /\ value = Strip(value, Whitespace)
                    /\ NoWhitespace(value) = NoWhitespace(Join(f.pieces))
      ]_vars

\* The values one name is given by the field lines of a block, in order of
\* appearance, for a block without continuation lines.
FieldValues(lines, name) ==
    [i \in DOMAIN SelectSeq(lines, LAMBDA l : IsFieldLine(l) /\ Lower(FieldName(l)) = Lower(name)) |->
        Strip(SplitOnce(SelectSeq(lines, LAMBDA l : IsFieldLine(l) /\ Lower(FieldName(l)) = Lower(name))[i],
                        <<":">>)[2], Whitespace)]
\* the value a container holds for a name before a block is parsed, as a
\* list of at most one string
Existing(h, name) ==
    IF Headers_contains(h, name) THEN <<Headers_getitem(h, name)>> ELSE <<>>

\* C18 (repeated names): when a header block is parsed, a name is stored with
\* one string: the value the container already had for it, if any, and the
\* values of its lines in order of appearance, joined with ", "; a name seen
\* once, and absent before, is stored with its own value.
C18_RepeatedHeaders ==
    [][ (is_headers_complete(parser') /\ exc' = "") =>
            \A block \in SeenBlocks : \A lines \in {Split(block, CRLF)} :
                (\A i \in DOMAIN lines : ~IsContinuation(lines[i])) =>
                    \A name \in {FieldName(lines[i]) :
                                    i \in {j \in DOMAIN lines : IsFieldLine(lines[j])}} \ {<<>>} :
                        /\ Headers_contains(parser'.headers, name)
                        /\ DictGet(parser'.headers.store, Val(header_field(name, {}, FALSE))) =
                            <<JoinWith(<<",", SP>>, Existing(parser.headers, name) \o FieldValues(lines, name))>>
      ]_vars

\* C18 witness: the header block of a request that names A twice has been
\* parsed, and A is stored with the one string 'b, c'.
C18_Witness ==
    /\ op = "execute" /\ exc = "" /\ is_headers_complete(parser)
    /\ fed = RepeatedRequest
    /\ Headers_contains(parser.headers, <<"a">>)
    /\ parser.headers.store = <<[key |-> <<"A">>, values |-> <<<<"b", ",", SP, "c">>>>]>>

\* C19 (headers populated once): over any sequence of calls each line of the
\* header block is inserted into the container at most once, so that the
\* value stored for a name is made of values of the name's lines, each taken
\* once and in order, calls made after an INVALID_HEADER return included;
\* once the headers are complete no execute or recv_body call changes the
\* container.
C19_HeadersOnce ==
    [][ /\ is_headers_complete(parser) => parser'.headers = parser.headers
        /\ \A block \in SeenBlocks : \A lines \in {Split(block, CRLF)} :
            (\A i \in DOMAIN lines : ~IsContinuation(lines[i])) =>
                \A name \in {FieldName(lines[i]) :
                                i \in {j \in DOMAIN lines : IsFieldLine(lines[j])}} \ {<<>>} :
                    Headers_contains(parser'.headers, name) =>
                        \E k \in 1..Len(FieldValues(lines, name)) :
                            DictGet(parser'.headers.store, Val(header_field(name, {}, FALSE))) =
                                <<JoinWith(<<",", SP>>, SubSeq(FieldValues(lines, name), 1, k))>>
      ]_vars

\* C20 (end of stream): execute with length 0, called when the headers are
\* complete and the message is not, makes the message complete, raises
\* nothing and leaves the headers and the body not yet drained as they were.
C20_EndOfStream ==
    [][ (op' = "eof" /\ is_headers_complete(parser) /\ ~is_message_complete(parser)) =>
            /\ is_message_complete(parser')
            /\ exc' = ""
            /\ parser'.headers = parser.headers
            /\ parser'.body = parser.body
      ]_vars

\* C20 witness: execute with length 0 has completed a message that has a
\* Content-Length, of which a part of the body had arrived and more was due;
\* the part is still there to drain.
C20_Witness ==
    /\ op = "eof" /\ exc = ""
    /\ is_headers_complete(parser) /\ is_message_complete(parser)
    /\ parser.headers.store # <<>>
    /\ parser.body # <<>>
    /\ parser.clen_rest # None /\ Val(parser.clen_rest) > 0

\* C21 (linear progress): in every state, whatever calls were made, execute
\* with length 0 on a fresh or half-fed parser included, a complete message
\* has complete headers and complete headers have a parsed first line: the
\* version is set.
C21_LinearProgress ==
    /\ is_message_complete(parser) => is_headers_complete(parser)
    /\ is_headers_complete(parser) => parser.version # None

\* The line an execute step hands to _parse_firstline, as a set of at most
\* one element: the bytes buffered before the step and the bytes of the step
\* up to the first CRLF.
FirstLines ==
    IF op' # "execute" \/ parser.on_firstline THEN {}
    ELSE {parser.buf.bytes \o SliceTo(d, Find(d, CRLF)) : d \in {u \in {StepData} : Find(u, CRLF) >= 0}}
\* is the line a request line: a method, a target and a version
IsRequestLine(line) ==
    \E bits \in {SplitWS(line, 2)} :
        /\ Len(bits) = 3
        /\ METHOD_RE_match(bits[1])
        /\ VERSION_RE_match(bits[3]) # None
\* is the line a status line: a version and a status of three digits
IsStatusLine(line) ==
    \E bits \in {SplitWS(line, 1)} :
        /\ Len(bits) = 2
        /\ VERSION_RE_match(bits[1]) # None
        /\ STATUS_RE_match(bits[2]) # None
\* is the line a first line for a parser of the kind
IsFirstLine(k, line) ==
    \/ k \in {0, 2} /\ IsRequestLine(line)
    \/ k \in {1, 2} /\ IsStatusLine(line)

\* C22 (first line by kind): a parser of kind 0 accepts a request line only,
\* one of kind 1 a status line only, and one of kind 2 either, a line that is
\* both being taken as a request line; the line is accepted when it is one
\* the kind allows and errno is BAD_FIRST_LINE when it is not.
C22_FirstLineByKind ==
    [][ \A line \in FirstLines :
            /\ IsFirstLine(kind(parser), line) <=>
                (exc' = "" /\ parser'.errno # Some(BAD_FIRST_LINE) /\ parser'.version # None)
            /\ ~IsFirstLine(kind(parser), line) <=> parser'.errno = Some(BAD_FIRST_LINE)
            /\ (kind(parser) = 2 /\ IsRequestLine(line)) =>
                (parser'.method # None /\ parser'.status_code = None)
      ]_vars

\* are the fields of a request line set and those of a status line unset
RequestFields(p) ==
    /\ p.method # None /\ p.url # None /\ p.path # None
    /\ p.query_string # None /\ p.fragment # None
    /\ p.status_code = None /\ p.status = None /\ p.reason = None
\* are the fields of a status line set and those of a request line unset
StatusFields(p) ==
    /\ p.status # None /\ p.status_code # None /\ p.reason # None
    /\ p.method = None /\ p.url = None /\ p.path = None
    /\ p.query_string = None /\ p.fragment = None

\* C23 (first-line fields): after a first line is accepted the version is
\* set and either the request fields are set and the status fields unset, or
\* the status fields are set and the request fields unset, for every kind.
C23_FirstLineFields ==
    [][ \A line \in FirstLines :
            IsFirstLine(kind(parser), line) =>
                /\ parser'.version # None
                /\ RequestFields(parser') \/ StatusFields(parser')
      ]_vars

\* the status of a response is one that has no content
NoContentStatus ==
    /\ parser.status_code # None
    /\ \/ Val(parser.status_code) \in {NO_CONTENT, NOT_MODIFIED}
       \/ Val(parser.status_code) \in 100..199
\* the Content-Length header of the container, as a list of at most one string
LengthHeader == Existing(parser.headers, CONTENT_LENGTH)
\* a string of decimal digits
IsDecimal(s) == s # <<>> /\ \A i \in DOMAIN s : s[i] \in Digits
\* a string that is a negative number or is not a number
IsNonsense(s) ==
    \/ s # <<>> /\ s[1] = "-"
    \/ \E i \in DOMAIN s : s[i] \notin Digits \cup Whitespace \cup {"+", "-", "_"}

\* C24 (framing decision): once the headers are complete, the message is
\* chunked iff the Transfer-Encoding value lowercased is chunked; a chunked
\* message has no content length whatever Content-Length says, and is not
\* complete while its chunks have not reached the zero-size chunk; without
\* chunking a decimal Content-Length is the content length and one that is
\* negative or not a number is taken as absent.  The statuses that have no
\* content are left aside.
C24_FramingDecision ==
    (is_headers_complete(parser) /\ ~NoContentStatus) =>
        /\ is_chunked(parser) <=>
            Lower(Val(Headers_get(parser.headers, TRANSFER_ENCODING, Some(<<>>)))) = CHUNKED
        /\ is_chunked(parser) =>
            /\ parser.clen = None
            /\ (~eof /\ RefFed.status = "incomplete") => ~is_message_complete(parser)
        /\ ~is_chunked(parser) =>
            \A cl \in {LengthHeader[i] : i \in DOMAIN LengthHeader} :
                /\ IsDecimal(cl) => parser.clen = Some(DigitsValue(cl, 10))
                /\ IsNonsense(cl) => parser.clen = None
        /\ (~is_chunked(parser) /\ LengthHeader = <<>>) => parser.clen = None

\* C24 witness: a response with Content-Length:1 and Transfer-Encoding:Chunked
\* is chunked and without content length, and is complete with all of its
\* bytes given, the body being the data of its one chunk.
C24_Witness ==
    /\ fed = ChunkedLengthResponse /\ ~eof /\ op = "execute"
    /\ LengthHeader = << <<"1">> >>
    /\ is_chunked(parser) /\ parser.clen = None
    /\ is_message_complete(parser)
    /\ TotalBody = <<"a">>

\* C25 (partial body): in every state is_partial_body() is true iff the body
\* accumulator holds at least one byte that recv_body has not yet returned; it
\* is false for a message that has no body bytes.
C25_PartialBody ==
    is_partial_body(parser) <=> Join(parser.body) # <<>>

\* the entries of the container under the calls: a set of [key, values]
Stored == {parser.headers.store[i] : i \in DOMAIN parser.headers.store}
\* is the name written Capfirst-Dash: a capital at the start of each piece
\* and no capital elsewhere
IsCapDash(k) ==
    \A i \in DOMAIN k :
        IF i = 1 \/ k[i - 1] = "-" THEN k[i] \notin LowerSet ELSE k[i] \notin UpperSet
\* the name with the case of its letters swapped at the odd positions
MixedCase(k) ==
    [i \in DOMAIN k |-> IF i % 2 = 0 THEN k[i]
                        ELSE IF k[i] \in UpperSet THEN LowerChar(k[i]) ELSE UpperChar(k[i])]
\* spellings of a name that differ by case only
CaseVariants(k) == {k, Upper(k), Lower(k), MixedCase(k)}

\* C26 (canonical keys, lookups in any case): after any calls of set, add,
\* update and pop every stored name is in canonical form, a name of the
\* registry or Capfirst-Dash, and is stored once; for every spelling of it
\* that differs by case, contains is true and get gives the stored values
\* joined by ", ".
C26_CanonicalKeys ==
    /\ \A e \in Stored :
        /\ e.key \in ALL_HEADER_FIELDS \/ IsCapDash(e.key)
        /\ \A name \in CaseVariants(e.key) :
            /\ Headers_contains(parser.headers, name)
            /\ Headers_get(parser.headers, name, None) = Some(JoinWith(<<",", SP>>, e.values))
    /\ \A i, j \in DOMAIN parser.headers.store :
        Lower(parser.headers.store[i].key) = Lower(parser.headers.store[j].key) => i = j

\* C26 witness: Host was given two values under the spellings of the calls,
\* and get of HOST gives 'a, b'.
C26_Witness ==
    /\ op = "add"
    /\ \E e \in Stored : e.key = <<"H", "o", "s", "t">> /\ Len(e.values) = 2
    /\ Headers_get(parser.headers, <<"H", "O", "S", "T">>, None) = Some(<<"a", ",", SP, "b">>)

\* C27 (no empty value): after any calls of set, add, update and pop no
\* stored value is the empty string and no name is stored without a value:
\* a call given an empty value leaves the container as it was.
C27_NoEmptyValue ==
    \A e \in Stored :
        /\ e.values # <<>>
        /\ \A i \in DOMAIN e.values : e.values[i] # <<>>

\* does the list hold each of its values once
NoRepeat(values) == \A i, j \in DOMAIN values : values[i] = values[j] => i = j
\* Is the dict after the dict before with one value put at the end of the
\* list of one name, a value the list did not hold, the name being put at the
\* end of the dict when it was not there.
OneValueAdded(before, after) ==
    \/ /\ Len(after) = Len(before)
       /\ \E i \in DOMAIN before :
            /\ after[i].key = before[i].key
            /\ after[i].values # <<>>
            /\ SubSeq(after[i].values, 1, Len(after[i].values) - 1) = before[i].values
            /\ \A j \in DOMAIN before[i].values :
                before[i].values[j] # after[i].values[Len(after[i].values)]
            /\ \A j \in DOMAIN before \ {i} : after[j] = before[j]
    \/ /\ Len(after) = Len(before) + 1
       /\ SubSeq(after, 1, Len(before)) = before
       /\ Len(after[Len(after)].values) = 1
       /\ \A j \in DOMAIN before : before[j].key # after[Len(after)].key

Slots ==
    UNION {{<<i, j>> : j \in DOMAIN parser.headers.store[i].values} : i \in DOMAIN parser.headers.store}

\* C29 (iteration and length): in every state of a container, iteration
\* yields one (name, value) pair for each stored value, names in the order of
\* the dict and values in the order of their list, and nothing else; len is
\* the number of pairs, the number of values over all names.
C29_IterationAndLen ==
    \A pairs \in {Headers_iter(parser.headers)} :
        /\ Len(pairs) = Cardinality(Slots)
        /\ Headers_len(parser.headers) = Len(pairs)
        /\ \A s \in Slots :
            pairs[Cardinality({t \in Slots : t[1] < s[1]}) + s[2]] =
                <<parser.headers.store[s[1]].key, parser.headers.store[s[1]].values[s[2]]>>

\* C29 witness: a container of one name with two values: two pairs,
\* length 2.
C29_Witness ==
    /\ Len(parser.headers.store) = 1
    /\ \E e \in Stored : Len(e.values) = 2
    /\ Headers_len(parser.headers) = 2
    /\ Len(Headers_iter(parser.headers)) = 2

\* C30 (kind constrains names): after any calls of set, add and update a
\* container of kind client holds no name of the response group and one of
\* kind server no name of the request group, X-Frame-Options and
\* X-Requested-With included.
C30_KindConstrainsNames ==
    \A e \in Stored :
        /\ parser.headers.kind = "client" => e.key \notin HEADER_FIELDS.response
        /\ parser.headers.kind = "server" => e.key \notin HEADER_FIELDS.request

\* is the name, in some case, a name of the set of registry names
NameIn(name, names) == \E n \in names : Lower(n) = Lower(name)
\* has the name a canonical form that is not empty
HasLetters(name) == \E i \in DOMAIN name : name[i] \notin Whitespace \cup {"-"}
\* is the name written with the prefix x-
IsExtension(name) == StartsWith(Lower(name), <<"x", "-">>)
\* Is the dict after the dict before with the one value stored under the
\* canonical form of the name, the other names being as they were.
StoredUnder(before, after, name, value) ==
    /\ \E i \in DOMAIN after :
        /\ Lower(after[i].key) = Lower(name)
        /\ after[i].key \in ALL_HEADER_FIELDS \/ IsCapDash(after[i].key)
        /\ after[i].values = <<value>>
        /\ \A j \in DOMAIN after \ {i} : \E k \in DOMAIN before : before[k] = after[j]
    /\ \A k \in DOMAIN before :
        Lower(before[k].key) # Lower(name) => \E j \in DOMAIN after : after[j] = before[k]

\* C31 as stated: in a container that is not strict, set(name, v) with a
\* non-empty v stores v under the canonical form of the name, whatever the
\* name and the kind of the container.
C31_AnyNameAccepted ==
    ~parser.headers.strict =>
        \A key \in ContainerNames, value \in ContainerValues :
            \A h \in {Headers_setitem(parser.headers, key, value)} :
                StoredUnder(parser.headers.store, h.store, key, value)

\* C31 (amended): in a container that is not strict, set(name, v) with a
\* non-empty v stores v under the canonical form of the name when the name
\* starts with x-, or is outside the registry and has a letter, or is a
\* registry name of the kind of the container; for a registry name that is
\* not of the kind, and for a name made of dashes, it leaves the container as
\* it was.
C31_NameAcceptedByKind ==
    ~parser.headers.strict =>
        \A key \in ContainerNames, value \in ContainerValues :
            \A h \in {Headers_setitem(parser.headers, key, value)} :
                IF /\ HasLetters(key)
                   /\ \/ IsExtension(key)
                      \/ ~NameIn(key, ALL_HEADER_FIELDS)
                      \/ NameIn(key, TYPE_HEADER_FIELDS[parser.headers.kind])
                THEN StoredUnder(parser.headers.store, h.store, key, value)
                ELSE h = parser.headers

\* C31 witness: set has stored the name foo, which is outside the registry,
\* as Foo in a container of kind client that is not strict.
C31_Witness ==
    /\ op = "set" /\ ~parser.headers.strict /\ parser.headers.kind = "client"
    /\ \E e \in Stored : e.key = <<"F", "o", "o">> /\ Len(e.values) = 1

\* C32: in a strict container, set and add of a name that is not in the
\* registry and does not start with x- are refused silently: the call raises
\* nothing and leaves the container as it was.
C32_StrictRejects ==
    /\ parser.headers.strict =>
        \A key \in ContainerNames, value \in ContainerValues :
            ~NameIn(key, ALL_HEADER_FIELDS) /\ ~IsExtension(key) =>
                /\ Headers_setitem(parser.headers, key, value) = parser.headers
                /\ Headers_add_header(parser.headers, key, value) = parser.headers
    /\ parser.headers.strict =>
        /\ \A e \in Stored : NameIn(e.key, ALL_HEADER_FIELDS) \/ IsExtension(e.key)
        /\ op \in {"set", "add"} => exc = ""

\* C32 witness: a strict container that set and add were called on holds an
\* x- name and a registry name, and nothing else.
C32_Witness ==
    /\ parser.headers.strict /\ op \in {"set", "add"}
    /\ {e.key : e \in Stored} = {<<"X", "-", "A">>, <<"D", "a", "t", "e">>}

\* the registry groups in the order the serialised form lists them
SerialGroups == <<"general", "request", "response", "entity">>
\* the name a serialised line opens with
LineName(line) == SplitOnce(line, <<":">>)[1]
\* is the name of one of the registry groups
Grouped(name) == \E g \in DOMAIN SerialGroups : name \in HEADER_FIELDS[SerialGroups[g]]
\* the position in SerialGroups of the group of a name of the registry
GroupOf(name) == CHOOSE g \in DOMAIN SerialGroups : name \in HEADER_FIELDS[SerialGroups[g]]
\* the position of a stored name in the dict
StoredAt(name) == CHOOSE i \in DOMAIN parser.headers.store : parser.headers.store[i].key = name

\* C33: the serialised block lists the stored names of the registry groups
\* in the order general, request, response, entity, and within a group in
\* the order of insertion; each line is `Name: v1, v2` and the block ends
\* with an empty line.
C33_SerialisationOrder ==
    \A lines \in {Split(Headers_str(parser.headers), CRLF)} :
        /\ Len(lines) >= 2
        /\ lines[Len(lines)] = <<>>
        /\ lines[Len(lines) - 1] = <<>>
        /\ \A i \in 1..(Len(lines) - 2) :
            \E e \in Stored :
                /\ Grouped(e.key)
                /\ lines[i] = e.key \o <<":", SP>> \o JoinWith(<<",", SP>>, e.values)
        /\ \A e \in Stored :
            Grouped(e.key) => \E i \in 1..(Len(lines) - 2) : LineName(lines[i]) = e.key
        /\ \A i, j \in 1..(Len(lines) - 2) :
            i < j =>
                \/ GroupOf(LineName(lines[i])) < GroupOf(LineName(lines[j]))
                \/ /\ GroupOf(LineName(lines[i])) = GroupOf(LineName(lines[j]))
                   /\ StoredAt(LineName(lines[i])) < StoredAt(LineName(lines[j]))

\* C33 witness: Content-Length of the entity group was inserted before Date
\* of the general group, and the serialised form lists Date first.
C33_Witness ==
    /\ Len(parser.headers.store) = 2
    /\ parser.headers.store[1].key = <<"C", "o", "n", "t", "e", "n", "t", "-", "L", "e", "n", "g", "t", "h">>
    /\ parser.headers.store[2].key = <<"D", "a", "t", "e">>
    /\ Find(Headers_str(parser.headers), <<"D", "a", "t", "e">>) = 0

\* the status line arguments of the round trip
RoundTripVersion == <<1, 1>>
RoundTripStatus == <<"2", "0", "0", SP, "O", "K">>
\* what a fresh response parser makes of the flat form of a container
RoundTrip(h) ==
    Let(Headers_flat(h, RoundTripVersion, RoundTripStatus), LAMBDA flat :
        execute(NewParser(1), flat, Len(flat)))
\* the entries of a dict with each list of values joined into one value
JoinedEntries(d) ==
    {[key |-> d[i].key, values |-> <<JoinWith(<<",", SP>>, d[i].values)>>] : i \in DOMAIN d}

\* C34: for a container H of kind server, a fresh response parser fed
\* H.flat(version, status) has its headers complete and no errno, and its
\* container holds the names of H with the joined values of H, in the order
\* of H's serialised form; the empty container included.
C34_RoundTrip ==
    parser.headers.kind = "server" =>
        \A r \in {RoundTrip(parser.headers)} :
            /\ r.exc = ""
            /\ r.p.on_headers_complete
            /\ r.p.errno = None
            /\ JoinedEntries(r.p.headers.store) = JoinedEntries(parser.headers.store)
            /\ \A i, j \in DOMAIN r.p.headers.store :
                i < j =>
                    Find(Headers_str(parser.headers), r.p.headers.store[i].key \o <<":">>)
                        < Find(Headers_str(parser.headers), r.p.headers.store[j].key \o <<":">>)

\* C35: with identity framing and a declared Content-Length n, the body
\* bytes made available through recv_body never number more than n, and
\* clen_rest never becomes negative.
C35_BodyWithinLength ==
    (is_headers_complete(parser) /\ ~is_chunked(parser) /\ parser.clen # None) =>
        /\ Val(parser.clen) >= 0 => Len(TotalBody) <= Val(parser.clen)
        /\ parser.clen_rest # None => Val(parser.clen_rest) >= 0

\* the body of the message as its framing delimits it: the payload of the
\* chunks, or the first n bytes after the headers for Content-Length n
FramedBody ==
    IF is_chunked(parser) THEN RefBody.payload
    ELSE SliceTo(MessageBody, Val(parser.clen))

\* C36: for a message framed by Content-Length or by well-formed chunks,
\* with no decompression and no errno, before the end of the stream is
\* signalled and whatever the points at which recv_body is called between
\* the execute calls, what recv_body has returned and would return is a
\* prefix of the message body, and the whole body once the message is
\* complete: no byte is lost, duplicated or reordered.
C36_BodyConserved ==
    (/\ is_headers_complete(parser)
     /\ ~eof
     /\ parser.errno = None
     /\ ~parser.decompress
     /\ \/ is_chunked(parser) /\ RefBody.status \in {"complete", "incomplete"}
        \/ ~is_chunked(parser) /\ parser.clen # None /\ Val(parser.clen) >= 0) =>
        /\ IsPrefix(TotalBody, FramedBody)
        /\ is_message_complete(parser) => TotalBody = FramedBody

\* C37 (monotone progress): no step turns is_headers_complete,
\* is_message_begin or is_message_complete from true to false; a complete
\* message has begun; an errno once set is never reset to none.
C37_MonotoneProgress ==
    [][/\ is_headers_complete(parser) => is_headers_complete(parser')
       /\ is_message_begin(parser) => is_message_begin(parser')
       /\ is_message_complete(parser) => is_message_complete(parser')
       /\ is_message_complete(parser') => is_message_begin(parser')
       /\ parser.errno # None => parser'.errno # None]_vars

\* C37 witness: after the steps that completed the headers, began the
\* message and set errno, a recv_body call has returned and errno is still
\* set; body bytes were delivered on the way.
C37_Witness ==
    /\ op = "recv_body"
    /\ parser.errno # None
    /\ is_headers_complete(parser) /\ is_message_begin(parser)
    /\ delivered # <<>>

\* C38: every name the container stores appears on exactly one line of its
\* serialised form, the names outside the registry groups included.
C38_EveryNameSerialised ==
    \A lines \in {Split(Headers_str(parser.headers), CRLF)} :
        \A e \in Stored :
            Cardinality({i \in DOMAIN lines : StartsWith(lines[i], e.key \o <<":">>)}) = 1

\* C39: the copy of a container has the names of the original with, for each
\* name, the list of values of the original, and so the same len; update
\* from another container of the same kind likewise gives an empty container
\* the values of the other.
C39_CopyPreserves ==
    \A c \in {Headers_copy(parser.headers)} :
        /\ c.store = parser.headers.store
        /\ Headers_len(c) = Headers_len(parser.headers)
        /\ Headers_update([parser.headers EXCEPT !.store = <<>>], Headers_iter(parser.headers)).store
            = parser.headers.store

====
